---- MODULE Spec2Model ----
(***************************************************************************)
(* A model of src/lightning.py: the AS3935 lightning monitor.  The         *)
(* interrupt callback, the all-clear timer callbacks, the monitoring       *)
(* thread and an application thread (shutdown, alert-timer cleanup) run    *)
(* concurrently and synchronise through three threading.Lock objects,      *)
(* which are not reentrant.                                                *)
(***************************************************************************)
EXTENDS Integers, Sequences, FiniteSets, TLC

(* ------------------------------ bounds --------------------------------- *)
\* the clock runs 0 .. MaxTime (one tick = one minute)
MaxTime == 3
\* slack_worker: the longest queue at the start, and the messages queued while
\* the worker runs
WorkerMsgs == 3
WorkerEvents == 1
\* interrupts in a burst
StormEvents == 3
\* strikes on a full or nearly full event buffer
BufferEvents == 2
WindowEvents == 2
\* messages other threads queue while one thread makes room in a full queue
DrainEvents == 1
\* number of events the sensor raises in a run
MaxEvents == 2
\* [ALERTS] all_clear_timer, in ticks
AllClearTimer == 2
\* [NOISE_HANDLING] event_threshold
EventThreshold == 2
\* [NOISE_HANDLING] time_window_seconds, in ticks
TimeWindow == 1
\* [NOISE_HANDLING] revert_delay_minutes, in ticks
RevertDelay == 2
\* sensor events in a run that starts with alert state left by earlier strikes
AlertEvents == 1
\* sensor events in a run that starts with a noise mode left by earlier interrupts
NoiseEvents == 1
QueueEvents == 2
LifeEvents == 1
QueueDrain == 2

(* -------------------------- program constants -------------------------- *)
INT_NH == 1
INT_D == 4
INT_L == 8
OutOfRange == 63
EnergyThreshold == 100000
CriticalDistance == 10
WarningDistance == 30
RaisedNoiseFloor == 5
MaxNoiseFloor == 7
EventsMaxLen == 100
NoiseEventsMaxLen == 50
NoiseFailsafeLen == 100
SlackQueueMaxSize == 100
StormCount == 100
MediumNfLev == 2
MediumWdth == 2

\* Python None where a number (timestamp, distance, energy) is expected
None == -1

\* width of the energy value the chip reports
EnergyBits == 20
\* max_consecutive_failures of the monitoring loop
MaxConsecutiveFailures == 3
\* monitoring_watchdog: max_failures
MaxFailures == 3
\* slack_worker: the calls of _send_slack_notification_internal for one message
SendAttempts == 3
\* _read_register/_write_register: retries
BusRetries == 3
\* initialize_sensor_with_retry: max_retries at start-up and in the recovery,
\* retry_delay in seconds, and the polls of the stop signal per second of waiting
InitRetries == 5
RecoverRetries == 3
RetryDelay == 5
PollsPerSecond == 10

RegAddrs == {1, 3, 4, 5, 6, 7}
TimerIds == {"t1", "t2", "t3"}
Threads == {"irq", "app", "sup"} \cup TimerIds
Locks == {"sensor", "status", "timer"}
Zones == {"warning", "critical"}

\* interrupt-register contents the sensor produces, strike distances and energies
Reasons == {INT_NH, INT_D, INT_L, 0}
Distances == {8, 25, 40, OutOfRange}
Energies == {50000, 150000, 250000}

VARIABLES
  now,            \* wall clock
  stop_event,     \* MONITORING_STATE['stop_event']
  lock_owner,     \* holder of SENSOR_INIT_LOCK, MONITORING_STATE['lock'], ALERT_STATE['timer_lock']
  sensor,         \* the global sensor object (exists = FALSE: None)
  reg,            \* the chip's registers
  irq_pending,    \* a falling edge waits for the callback thread
  registered,     \* GPIO.add_event_detect is in force
  status,         \* MONITORING_STATE['status']
  events,         \* MONITORING_STATE['events']
  noise_events,   \* MONITORING_STATE['noise_events']
  noise_revert_timer,
  storm,          \* last_interrupt_time, interrupt_count, interrupt_storm_detected, re-enable timer
  alert,          \* ALERT_STATE
  timers,         \* threading.Timer objects
  slack_queue,    \* SLACK_QUEUE
  irq,            \* the callback thread: pc and locals
  sup_pc,         \* the monitoring thread
  noise_enabled,  \* [NOISE_HANDLING] enabled
  events_left,
  drv,            \* driver objects with an open SPI handle; health-check locals
  call            \* the driver or queue call in progress: its arguments and outcome

vars == <<now, stop_event, lock_owner, sensor, reg, irq_pending, registered, status,
          events, noise_events, noise_revert_timer, storm, alert, timers, slack_queue,
          irq, sup_pc, noise_enabled, events_left, drv, call>>

(* ------------------------------ helpers -------------------------------- *)
Free(l) == lock_owner[l] = "none"
Acquire(lo, l, t) == [lo EXCEPT ![l] = t]
Release(lo, l) == [lo EXCEPT ![l] = "none"]

\* a buffer without a bound
DequeAppendUnbounded(q, x, n) == Append(q, x)

\* deque(maxlen=n).append
DequeAppend(q, x, n) == IF Len(q) >= n THEN Append(Tail(q), x) ELSE Append(q, x)

\* variant of DropOld: the window is never aged
DropOldKeepsAll(q, t) == q

RECURSIVE DropOld(_, _)
\* while noise_events and (now - noise_events[0]) > window: popleft()
DropOld(q, t) ==
  IF q /= <<>> /\ (t - Head(q)) > TimeWindow THEN DropOld(Tail(q), t) ELSE q

\* list(q)[-n:]
LastN(q, n) == IF Len(q) <= n THEN q ELSE SubSeq(q, Len(q) - n + 1, Len(q))

\* the three bytes the chip holds for a 20-bit energy
EnergyBytes(e) == <<e % 256, (e \div 256) % 256, (e \div 65536) % 256>>

\* a read of the interrupt register that keeps the upper four bits
get_interrupt_reason_unmasked(r) == r[3]

\* get_interrupt_reason: _read_register(0x03) & 0x0F
get_interrupt_reason(r) == r[3] % 16
\* get_lightning_distance: _read_register(0x07) & 0x3F
get_lightning_distance(r) == r[7] % 64
\* a decoder that takes register 0x04 for the middle byte and 0x05 for the low one
get_lightning_energy_swapped(r) == ((r[6] % 32) * 65536) + (r[4] * 256) + r[5]

\* get_lightning_energy: (mmsb << 16) | (msb << 8) | lsb, mmsb masked to 5 bits
get_lightning_energy(r) == ((r[6] % 32) * 65536) + (r[5] * 256) + r[4]

\* set_noise_floor: (level << 4) | (current & 0x0F) written to register 0x01
set_noise_floor(r, level) ==
  IF level < 0 \/ level > MaxNoiseFloor THEN r
  ELSE [r EXCEPT ![1] = (level * 16) + (r[1] % 16)]

\* "sensor and sensor.is_initialized"
SensorLive == sensor.exists /\ sensor.is_initialized

IsHigh(level) == level \in {"critical", "warning"}

\* the oldest queued message whatever its level
FirstAny(q, i) == IF i > Len(q) THEN 0 ELSE i

RECURSIVE FirstLow(_, _)
\* index of the first queued message that is neither CRITICAL nor WARNING, or 0
FirstLow(q, i) ==
  IF i > Len(q) THEN 0
  ELSE IF ~IsHigh(q[i].alert_level) THEN i ELSE FirstLow(q, i + 1)

RemoveAt(q, i) == SubSeq(q, 1, i - 1) \o SubSeq(q, i + 1, Len(q))

\* a queue that drops every message offered while it is full
send_slack_notification_drops_when_full(q, msg) ==
  IF Len(q) < SlackQueueMaxSize THEN Append(q, msg) ELSE q

\* send_slack_notification with [SLACK] enabled = true (it returns at once when
\* disabled): put_nowait, and on a full queue the priority handling
send_slack_notification(q, msg) ==
  IF Len(q) < SlackQueueMaxSize THEN Append(q, msg)
  ELSE IF IsHigh(msg.alert_level)
       THEN LET i == FirstLow(q, 1)
            IN IF i = 0 THEN q ELSE Append(RemoveAt(q, i), msg)
       ELSE q

Msg(level, prev, d, e) ==
  [alert_level |-> level, previous_level |-> prev, distance |-> d, energy |-> e]

(* --------------------------- threading.Timer --------------------------- *)
UnusedTimer == [level |-> "none", due |-> 0, st |-> "unused"]
\* Thread.is_alive of a timer: started, and neither finished nor cancelled
IsAlive(tm, i) == tm[i].st \in {"pending", "started"}
\* Timer.cancel: only a timer still waiting is stopped
Cancel(tm, i) ==
  IF i \in TimerIds /\ tm[i].st = "pending" THEN [tm EXCEPT ![i].st = "cancelled"] ELSE tm
FreshTimer(tm) == CHOOSE i \in TimerIds : tm[i].st = "unused"
HasFreshTimer(tm) == \E i \in TimerIds : tm[i].st = "unused"
StartTimer(tm, i, level, delay) ==
  [tm EXCEPT ![i] = [level |-> level, due |-> now + delay, st |-> "pending"]]

ZoneTimer(a, z) == IF z = "warning" THEN a.warning_timer ELSE a.critical_timer
ZoneActive(a, z) == IF z = "warning" THEN a.warning_active ELSE a.critical_active
ZoneLast(a, z) == IF z = "warning" THEN a.last_warning_strike ELSE a.last_critical_strike

(* ------------------------------ initial state -------------------------- *)
NoSensor == [exists |-> FALSE, is_initialized |-> FALSE, original_noise_floor |-> 0]

InitStatus ==
  [last_reading |-> None, sensor_active |-> FALSE, sensor_healthy |-> TRUE,
   last_error |-> "none", noise_mode |-> "Normal", status_message |-> "Not started"]

InitAlert ==
  [warning_timer |-> "none", critical_timer |-> "none",
   warning_active |-> FALSE, critical_active |-> FALSE,
   last_warning_strike |-> None, last_critical_strike |-> None,
   active_timers |-> {}]

InitIrq ==
  [pc |-> "idle", reason |-> 0, distance |-> 0, energy |-> 0,
   send_alert |-> FALSE, level |-> "none"]

\* re_enable: the re_enable_interrupt Timers started and not yet finished;
\* re_enable_pc: the position of the one that runs
InitStorm ==
  [last_interrupt_time |-> None, interrupt_count |-> 0,
   interrupt_storm_detected |-> FALSE, re_enable |-> 0, re_enable_pc |-> "wait"]

\* no driver object yet; consecutive_failures = 0; no /health request in progress;
\* the monitoring thread's locals: the attempt and the remaining polls of the
\* backoff wait of initialize_sensor_with_retry, its max_retries argument,
\* interrupt_configured, and what the last health check returned; the watchdog's
\* position and its consecutive_failures; [SENSOR] auto_start
InitDrv ==
  [open |-> 0, failures |-> 0, app_pc |-> "idle",
   attempt |-> 0, wait |-> 0, max_retries |-> InitRetries,
   interrupt_configured |-> FALSE, last_check |-> "none",
   wd_pc |-> "wait", wd_failures |-> 0, auto_start |-> TRUE]

\* no call in progress
NoCall == [op |-> "none"]

InitCommon ==
  /\ stop_event = FALSE
  /\ call = NoCall
  /\ drv = InitDrv
  /\ lock_owner = [l \in Locks |-> "none"]
  /\ sensor = NoSensor
  /\ reg = [a \in RegAddrs |-> 0]
  /\ irq_pending = FALSE
  /\ registered = FALSE
  /\ status = InitStatus
  /\ events = <<>>
  /\ noise_events = <<>>
  /\ noise_revert_timer = "none"
  /\ storm = InitStorm
  /\ slack_queue = <<>>
  /\ irq = InitIrq
  /\ sup_pc = "init"
  /\ noise_enabled \in BOOLEAN

Init ==
  /\ InitCommon
  /\ events_left = MaxEvents
  /\ now = 0
  /\ alert = InitAlert
  /\ timers = [i \in TimerIds |-> UnusedTimer]

(* ------------------------- alert state machine ------------------------- *)
NoAlert(a) == [alert |-> a, send_alert |-> FALSE, level |-> "none", schedule |-> "none"]

\* check_alert_conditions without "ALERT_STATE['warning_active'] = False" in the
\* critical branch
check_alert_conditions_keeps_warning(a, distance, energy) ==
  IF energy < EnergyThreshold THEN NoAlert(a)
  ELSE IF distance <= CriticalDistance
  THEN LET a1 == [a EXCEPT !.last_critical_strike = now]
       IN IF ~a.critical_active
          THEN [alert |-> [a1 EXCEPT !.critical_active = TRUE],
                send_alert |-> TRUE, level |-> "critical", schedule |-> "critical"]
          ELSE [alert |-> a1, send_alert |-> FALSE, level |-> "none", schedule |-> "critical"]
  ELSE IF distance <= WarningDistance /\ ~a.critical_active
  THEN LET a1 == [a EXCEPT !.last_warning_strike = now]
       IN IF ~a.warning_active
          THEN [alert |-> [a1 EXCEPT !.warning_active = TRUE],
                send_alert |-> TRUE, level |-> "warning", schedule |-> "warning"]
          ELSE [alert |-> a1, send_alert |-> FALSE, level |-> "none", schedule |-> "warning"]
  ELSE NoAlert(a)

\* check_alert_conditions without the energy threshold
check_alert_conditions_ignores_energy(a, distance, energy) ==
  IF distance <= CriticalDistance
  THEN LET a1 == [a EXCEPT !.last_critical_strike = now]
       IN IF ~a.critical_active
          THEN [alert |-> [a1 EXCEPT !.critical_active = TRUE, !.warning_active = FALSE],
                send_alert |-> TRUE, level |-> "critical", schedule |-> "critical"]
          ELSE [alert |-> a1, send_alert |-> FALSE, level |-> "none", schedule |-> "critical"]
  ELSE IF distance <= WarningDistance /\ ~a.critical_active
  THEN LET a1 == [a EXCEPT !.last_warning_strike = now]
       IN IF ~a.warning_active
          THEN [alert |-> [a1 EXCEPT !.warning_active = TRUE],
                send_alert |-> TRUE, level |-> "warning", schedule |-> "warning"]
          ELSE [alert |-> a1, send_alert |-> FALSE, level |-> "none", schedule |-> "warning"]
  ELSE NoAlert(a)

\* check_alert_conditions, the part that runs under timer_lock before the call of
\* schedule_all_clear_message: the new ALERT_STATE, the result, and the zone whose
\* all-clear timer is to be (re)scheduled
check_alert_conditions(a, distance, energy) ==
  IF energy < EnergyThreshold THEN NoAlert(a)
  ELSE IF distance <= CriticalDistance
  THEN LET a1 == [a EXCEPT !.last_critical_strike = now]
       IN IF ~a.critical_active
          THEN [alert |-> [a1 EXCEPT !.critical_active = TRUE, !.warning_active = FALSE],
                send_alert |-> TRUE, level |-> "critical", schedule |-> "critical"]
          ELSE [alert |-> a1, send_alert |-> FALSE, level |-> "none", schedule |-> "critical"]
  ELSE IF distance <= WarningDistance /\ ~a.critical_active
  THEN LET a1 == [a EXCEPT !.last_warning_strike = now]
       IN IF ~a.warning_active
          THEN [alert |-> [a1 EXCEPT !.warning_active = TRUE],
                send_alert |-> TRUE, level |-> "warning", schedule |-> "warning"]
          ELSE [alert |-> a1, send_alert |-> FALSE, level |-> "none", schedule |-> "warning"]
  ELSE NoAlert(a)

\* schedule_all_clear_message, the part under timer_lock: cancel the zone's timer,
\* drop dead timers from the tracking list, start and record a new timer
schedule_all_clear_message(a, tm, z) ==
  LET tm1 == Cancel(tm, ZoneTimer(a, z))
      alive == {i \in a.active_timers : IsAlive(tm1, i)}
      new == FreshTimer(tm1)
      a1 == [a EXCEPT !.active_timers = alive \cup {new}]
  IN [alert |-> IF z = "warning" THEN [a1 EXCEPT !.warning_timer = new]
                ELSE [a1 EXCEPT !.critical_timer = new],
      timers |-> StartTimer(tm1, new, z, AllClearTimer)]

\* send_all_clear without the test that the zone is active
send_all_clear_any_state(a, q, z) ==
  IF /\ ZoneTimer(a, z) /= "none"
     /\ ZoneLast(a, z) /= None
     /\ (now - ZoneLast(a, z)) >= AllClearTimer
  THEN [alert |-> IF z = "warning"
                  THEN [a EXCEPT !.warning_active = FALSE, !.warning_timer = "none"]
                  ELSE [a EXCEPT !.critical_active = FALSE, !.critical_timer = "none"],
        queue |-> send_slack_notification(q, Msg("all_clear", z, None, None))]
  ELSE [alert |-> a, queue |-> q]

\* send_all_clear without the test of the time since the last strike
send_all_clear_any_time(a, q, z) ==
  IF /\ ZoneActive(a, z)
     /\ ZoneTimer(a, z) /= "none"
     /\ ZoneLast(a, z) /= None
  THEN [alert |-> IF z = "warning"
                  THEN [a EXCEPT !.warning_active = FALSE, !.warning_timer = "none"]
                  ELSE [a EXCEPT !.critical_active = FALSE, !.critical_timer = "none"],
        queue |-> send_slack_notification(q, Msg("all_clear", z, None, None))]
  ELSE [alert |-> a, queue |-> q]

\* send_all_clear, the part under timer_lock, for the zone the timer was made for
send_all_clear(a, q, z) ==
  IF /\ ZoneActive(a, z)
     /\ ZoneTimer(a, z) /= "none"
     /\ ZoneLast(a, z) /= None
     /\ (now - ZoneLast(a, z)) >= AllClearTimer
  THEN [alert |-> IF z = "warning"
                  THEN [a EXCEPT !.warning_active = FALSE, !.warning_timer = "none"]
                  ELSE [a EXCEPT !.critical_active = FALSE, !.critical_timer = "none"],
        queue |-> send_slack_notification(q, Msg("all_clear", z, None, None))]
  ELSE [alert |-> a, queue |-> q]

RECURSIVE CancelAll(_, _)
CancelAll(tm, ids) ==
  IF ids = {} THEN tm
  ELSE LET i == CHOOSE j \in ids : TRUE IN CancelAll(Cancel(tm, i), ids \ {i})

\* cleanup_alert_timers, under timer_lock
cleanup_alert_timers(a, tm) ==
  [alert |-> [a EXCEPT !.warning_timer = "none", !.critical_timer = "none",
                       !.active_timers = {},
                       !.warning_active = FALSE, !.critical_active = FALSE],
   timers |-> CancelAll(tm, ({a.warning_timer, a.critical_timer} \cap TimerIds)
                             \cup a.active_timers)]

(* ------------------------------ the sensor ----------------------------- *)
\* the chip latches an event and pulls the interrupt line; the edge is seen while
\* edge detection is registered
SensorEvent ==
  /\ events_left > 0
  /\ registered
  /\ ~irq_pending
  /\ \E r \in Reasons :
       IF r = INT_L
       THEN \E d \in Distances, e \in Energies :
              reg' = [reg EXCEPT ![3] = 144 + r, ![7] = d,
                                 ![4] = EnergyBytes(e)[1], ![5] = EnergyBytes(e)[2],
                                 ![6] = EnergyBytes(e)[3]]
       ELSE reg' = [reg EXCEPT ![3] = 144 + r]
  /\ irq_pending' = TRUE
  /\ events_left' = events_left - 1
  /\ UNCHANGED <<now, stop_event, lock_owner, sensor, registered, status, events,
                 noise_events, noise_revert_timer, storm, alert, timers, slack_queue,
                 irq, sup_pc, noise_enabled, drv, call>>

(* ------------------- handle_sensor_interrupt (callback) ---------------- *)
\* an entry that does not look at the stop signal
EntryPcIgnoresStop(stop) == "storm"

\* "if MONITORING_STATE['stop_event'].is_set(): return"
EntryPc(stop) == IF stop THEN "idle" ELSE "storm"

\* entry of the callback
IrqEnter ==
  /\ irq.pc = "idle"
  /\ irq_pending
  /\ registered
  /\ irq_pending' = FALSE
  /\ irq' = [irq EXCEPT !.pc = EntryPc(stop_event)]
  /\ UNCHANGED <<now, stop_event, lock_owner, sensor, reg, registered, status, events,
                 noise_events, noise_revert_timer, storm, alert, timers, slack_queue,
                 sup_pc, noise_enabled, events_left, drv, call>>

\* "if MONITORING_STATE['interrupt_count'] > 100"
StormTripped(count) == count > StormCount

\* storm detection under MONITORING_STATE['lock']; fast: this invocation came less
\* than 0.01 s after the previous one
IrqStormCheck ==
  /\ irq.pc = "storm"
  /\ Free("status")
  /\ \E fast \in BOOLEAN :
       /\ fast => storm.last_interrupt_time = now
       /\ IF fast
          THEN IF StormTripped(storm.interrupt_count + 1)
               THEN /\ storm' = [storm EXCEPT
                          !.interrupt_count = @ + 1,
                          !.interrupt_storm_detected = TRUE,
                          !.re_enable = IF storm.interrupt_storm_detected THEN @ ELSE @ + 1]
                    /\ registered' = (registered /\ storm.interrupt_storm_detected)
                    /\ irq' = InitIrq
               ELSE /\ storm' = [storm EXCEPT !.interrupt_count = @ + 1,
                                              !.last_interrupt_time = now]
                    /\ irq' = [irq EXCEPT !.pc = "acq_sensor"]
                    /\ UNCHANGED registered
          ELSE /\ storm' = [storm EXCEPT !.interrupt_count = 0,
                                         !.interrupt_storm_detected = FALSE,
                                         !.last_interrupt_time = now]
               /\ irq' = [irq EXCEPT !.pc = "acq_sensor"]
               /\ UNCHANGED registered
  /\ UNCHANGED <<now, stop_event, lock_owner, sensor, reg, irq_pending, status, events,
                 noise_events, noise_revert_timer, alert, timers, slack_queue,
                 sup_pc, noise_enabled, events_left, drv, call>>

\* the state a noise escalation leaves once SENSOR_INIT_LOCK has been entered:
\* set_noise_floor(level), noise_mode, and the revert timer started afterwards
NoiseEscalate(mode, level) ==
  LET new == FreshTimer(timers)
  IN /\ HasFreshTimer(timers)
     /\ reg' = IF SensorLive THEN set_noise_floor(reg, level) ELSE reg
     /\ status' = IF SensorLive THEN [status EXCEPT !.noise_mode = mode] ELSE status
     /\ timers' = StartTimer(timers, new, mode, RevertDelay)
     /\ noise_revert_timer' = new

\* SENSOR_INIT_LOCK is taken at three places of the callback: with a 0.5 s timeout
\* at the top of handle_sensor_interrupt, and by a plain "with" in
\* handle_disturber_event and handle_noise_high_event, both of which the callback
\* calls while it still owns the lock
IrqSensorLock ==
  /\ irq.pc \in {"acq_sensor", "d_acq_sensor", "n_acq_sensor"}
  /\ IF irq.pc = "acq_sensor"
     THEN /\ IF Free("sensor")
             THEN /\ lock_owner' = Acquire(lock_owner, "sensor", "irq")
                  /\ irq' = [irq EXCEPT !.pc = "read_reason"]
             ELSE /\ irq' = InitIrq
                  /\ UNCHANGED lock_owner
          /\ UNCHANGED <<reg, status, timers, noise_revert_timer>>
     ELSE /\ Free("sensor")
          /\ IF irq.pc = "d_acq_sensor"
             THEN NoiseEscalate("High", RaisedNoiseFloor)
             ELSE NoiseEscalate("Critical", MaxNoiseFloor)
          /\ lock_owner' = Release(lock_owner, "status")
          /\ irq' = InitIrq
  /\ UNCHANGED <<now, stop_event, sensor, irq_pending, registered, events, noise_events,
                 storm, alert, slack_queue, sup_pc, noise_enabled, events_left, drv, call>>

\* "if not sensor or not sensor.is_initialized: return", then the read of the
\* interrupt reason; ok = FALSE: the bus failed on every retry (IOError)
IrqReadReason ==
  /\ irq.pc = "read_reason"
  /\ IF ~SensorLive
     THEN /\ irq' = InitIrq
          /\ lock_owner' = Release(lock_owner, "sensor")
     ELSE /\ \E ok \in BOOLEAN :
               irq' = IF ok THEN [irq EXCEPT !.pc = "upd_reading",
                                             !.reason = get_interrupt_reason(reg)]
                      ELSE [irq EXCEPT !.pc = "exc"]
          /\ UNCHANGED lock_owner
  /\ UNCHANGED <<now, stop_event, sensor, reg, irq_pending, registered, status, events,
                 noise_events, noise_revert_timer, storm, alert, timers, slack_queue,
                 sup_pc, noise_enabled, events_left, drv, call>>

\* last_reading under MONITORING_STATE['lock'], then the dispatch on the reason
IrqDispatch ==
  /\ irq.pc = "upd_reading"
  /\ Free("status")
  /\ status' = [status EXCEPT !.last_reading = now]
  /\ IF irq.reason = INT_L
     THEN irq' = [irq EXCEPT !.pc = "l_read"] /\ UNCHANGED lock_owner
     ELSE IF irq.reason = INT_D /\ noise_enabled
     THEN irq' = [irq EXCEPT !.pc = "d_start"] /\ UNCHANGED lock_owner
     ELSE IF irq.reason = INT_NH /\ noise_enabled
     THEN irq' = [irq EXCEPT !.pc = "n_start"] /\ UNCHANGED lock_owner
     ELSE /\ irq' = InitIrq
          /\ lock_owner' = Release(lock_owner, "sensor")
  /\ UNCHANGED <<now, stop_event, sensor, reg, irq_pending, registered, events,
                 noise_events, noise_revert_timer, storm, alert, timers, slack_queue,
                 sup_pc, noise_enabled, events_left, drv, call>>

\* an error handler that leaves the status as it is
InterruptErrorUnmarked(st) == st

\* the status the callback's "except Exception" writes
InterruptError(st) == [st EXCEPT !.sensor_healthy = FALSE, !.last_error = "Interrupt error"]

\* "except Exception": health degraded under MONITORING_STATE['lock'], then the
\* "finally" releases SENSOR_INIT_LOCK
IrqException ==
  /\ irq.pc = "exc"
  /\ Free("status")
  /\ status' = InterruptError(status)
  /\ irq' = InitIrq
  /\ lock_owner' = Release(lock_owner, "sensor")
  /\ UNCHANGED <<now, stop_event, sensor, reg, irq_pending, registered, events,
                 noise_events, noise_revert_timer, storm, alert, timers, slack_queue,
                 sup_pc, noise_enabled, events_left, drv, call>>

(* ------------------------- handle_lightning_event ---------------------- *)
\* a validation that lets the out-of-range indicator through
ValidDistanceNoSentinel(distance) == distance /= 0

\* "if distance == 0x3F: ... return" and "if distance == 0: ... return"
ValidDistance(distance) == distance /= OutOfRange /\ distance /= 0

\* distance and energy are read and validated: 0x3F and 0 are logged and dropped
IrqLightningRead ==
  /\ irq.pc = "l_read"
  /\ \E ok \in BOOLEAN :
       IF ~ok
       THEN irq' = [irq EXCEPT !.pc = "exc"] /\ UNCHANGED lock_owner
       ELSE LET distance == get_lightning_distance(reg)
                energy == get_lightning_energy(reg)
            IN IF ~ValidDistance(distance)
               THEN /\ irq' = InitIrq
                    /\ lock_owner' = Release(lock_owner, "sensor")
               ELSE /\ irq' = [irq EXCEPT !.pc = "l_check", !.distance = distance,
                                          !.energy = energy]
                    /\ UNCHANGED lock_owner
  /\ UNCHANGED <<now, stop_event, sensor, reg, irq_pending, registered, status, events,
                 noise_events, noise_revert_timer, storm, alert, timers, slack_queue,
                 sup_pc, noise_enabled, events_left, drv, call>>

\* ALERT_STATE['timer_lock'] is taken by "with" in check_alert_conditions and again,
\* by the same thread, in schedule_all_clear_message, which check_alert_conditions
\* calls inside its own "with" block.  Had the second "with" been entered and left,
\* leaving the first would release an unlocked lock (RuntimeError).
IrqTimerLock ==
  /\ irq.pc \in {"l_check", "sched_acq"}
  /\ Free("timer")
  /\ IF irq.pc = "l_check"
     THEN LET r == check_alert_conditions(alert, irq.distance, irq.energy)
          IN /\ alert' = r.alert
             /\ IF r.schedule = "none"
                THEN /\ irq' = [irq EXCEPT !.pc = "l_append", !.send_alert = r.send_alert,
                                           !.level = r.level]
                     /\ UNCHANGED lock_owner
                ELSE /\ irq' = [irq EXCEPT !.pc = "sched_acq", !.send_alert = r.send_alert,
                                           !.level = r.schedule]
                     /\ lock_owner' = Acquire(lock_owner, "timer", "irq")
             /\ UNCHANGED timers
     ELSE LET r == schedule_all_clear_message(alert, timers, irq.level)
          IN /\ HasFreshTimer(timers)
             /\ alert' = r.alert
             /\ timers' = r.timers
             /\ irq' = [irq EXCEPT !.pc = "exc"]
             /\ UNCHANGED lock_owner
  /\ UNCHANGED <<now, stop_event, sensor, reg, irq_pending, registered, status, events,
                 noise_events, noise_revert_timer, storm, slack_queue,
                 sup_pc, noise_enabled, events_left, drv, call>>

\* the event record is appended under MONITORING_STATE['lock']; then the alert, if
\* any, is queued; the callback returns and its "finally" releases SENSOR_INIT_LOCK
IrqLightningAppend ==
  /\ irq.pc = "l_append"
  /\ Free("status")
  /\ events' = DequeAppend(events,
                  [timestamp |-> now, distance |-> irq.distance, energy |-> irq.energy,
                   alert_sent |-> irq.send_alert, alert_level |-> irq.level],
                  EventsMaxLen)
  /\ status' = [status EXCEPT !.sensor_healthy = TRUE]
  /\ slack_queue' = IF irq.send_alert
                    THEN send_slack_notification(slack_queue,
                            Msg(irq.level, "none", irq.distance, irq.energy))
                    ELSE slack_queue
  /\ irq' = InitIrq
  /\ lock_owner' = Release(lock_owner, "sensor")
  /\ UNCHANGED <<now, stop_event, sensor, reg, irq_pending, registered,
                 noise_events, noise_revert_timer, storm, alert, timers,
                 sup_pc, noise_enabled, events_left, drv, call>>

(* ----------------- handle_disturber_event / handle_noise_high_event ---- *)
\* the disturber window under MONITORING_STATE['lock']
DisturberWindow(q) ==
  LET q1 == DropOld(DequeAppend(q, now, NoiseEventsMaxLen), now)
  IN IF Len(q1) > NoiseFailsafeLen THEN LastN(q1, NoiseEventsMaxLen) ELSE q1

IrqDisturber ==
  /\ irq.pc = "d_start"
  /\ Free("status")
  /\ noise_events' = DisturberWindow(noise_events)
  /\ IF Len(noise_events') >= EventThreshold /\ status.noise_mode /= "Critical"
     THEN IF status.noise_mode /= "High"
          THEN \* "with SENSOR_INIT_LOCK", MONITORING_STATE['lock'] held
               /\ timers' = Cancel(timers, noise_revert_timer)
               /\ irq' = [irq EXCEPT !.pc = "d_acq_sensor"]
               /\ lock_owner' = Acquire(lock_owner, "status", "irq")
               /\ UNCHANGED noise_revert_timer
          ELSE /\ HasFreshTimer(timers)
               /\ LET tm1 == Cancel(timers, noise_revert_timer)
                      new == FreshTimer(tm1)
                  IN /\ timers' = StartTimer(tm1, new, "High", RevertDelay)
                     /\ noise_revert_timer' = new
               /\ irq' = InitIrq
               /\ lock_owner' = Release(lock_owner, "sensor")
     ELSE /\ irq' = InitIrq
          /\ lock_owner' = Release(lock_owner, "sensor")
          /\ UNCHANGED <<timers, noise_revert_timer>>
  /\ UNCHANGED <<now, stop_event, sensor, reg, irq_pending, registered, status, events,
                 storm, alert, slack_queue, sup_pc, noise_enabled, events_left, drv, call>>

IrqNoiseHigh ==
  /\ irq.pc = "n_start"
  /\ Free("status")
  /\ IF status.noise_mode = "Critical"
     THEN /\ irq' = InitIrq
          /\ lock_owner' = Release(lock_owner, "sensor")
          /\ UNCHANGED timers
     ELSE \* "with SENSOR_INIT_LOCK", MONITORING_STATE['lock'] held
          /\ timers' = Cancel(timers, noise_revert_timer)
          /\ irq' = [irq EXCEPT !.pc = "n_acq_sensor"]
          /\ lock_owner' = Acquire(lock_owner, "status", "irq")
  /\ UNCHANGED <<now, stop_event, sensor, reg, irq_pending, registered, status, events,
                 noise_events, noise_revert_timer, storm, alert, slack_queue,
                 sup_pc, noise_enabled, events_left, drv, call>>

(* ----------------------- all-clear timer callbacks --------------------- *)
\* the Timer thread wakes when its interval has run and it was not cancelled, and
\* calls send_all_clear, which returns at once when the stop signal is set
TimerStart(i) ==
  /\ timers[i].st = "pending"
  /\ timers[i].level \in Zones
  /\ now >= timers[i].due
  /\ timers' = [timers EXCEPT ![i].st = IF stop_event THEN "done" ELSE "started"]
  /\ UNCHANGED <<now, stop_event, lock_owner, sensor, reg, irq_pending, registered,
                 status, events, noise_events, noise_revert_timer, storm, alert,
                 slack_queue, irq, sup_pc, noise_enabled, events_left, drv, call>>

\* send_all_clear under ALERT_STATE['timer_lock']
AllClearRun(i) ==
  /\ timers[i].st = "started"
  /\ timers[i].level \in Zones
  /\ Free("timer")
  /\ LET r == send_all_clear(alert, slack_queue, timers[i].level)
     IN /\ alert' = r.alert
        /\ slack_queue' = r.queue
  /\ timers' = [timers EXCEPT ![i].st = "done"]
  /\ UNCHANGED <<now, stop_event, lock_owner, sensor, reg, irq_pending, registered,
                 status, events, noise_events, noise_revert_timer, storm,
                 irq, sup_pc, noise_enabled, events_left, drv, call>>

(* --------------------------- application thread ------------------------ *)
\* a shutdown request sets the stop signal
SetStop ==
  /\ ~stop_event
  /\ stop_event' = TRUE
  /\ UNCHANGED <<now, lock_owner, sensor, reg, irq_pending, registered, status, events,
                 noise_events, noise_revert_timer, storm, alert, timers, slack_queue,
                 irq, sup_pc, noise_enabled, events_left, drv, call>>

\* cleanup_alert_timers: its body under ALERT_STATE['timer_lock']
AppCleanup ==
  /\ Free("timer")
  /\ LET r == cleanup_alert_timers(alert, timers)
     IN /\ alert' = r.alert
        /\ timers' = r.timers
  /\ UNCHANGED <<now, stop_event, lock_owner, sensor, reg, irq_pending, registered,
                 status, events, noise_events, noise_revert_timer, storm,
                 slack_queue, irq, sup_pc, noise_enabled, events_left, drv, call>>

(* ------------------- lightning_monitoring (monitoring thread) ---------- *)
\* an initialization that leaves the previous driver object open
OpenAfterInitializeKeepsOld(open, s) == open + 1

\* "if sensor: sensor.cleanup(); sensor = None", then AS3935LightningDetector(...):
\* the number of driver objects whose SPI handle is open
OpenAfterInitialize(open, s) == (IF s.exists THEN open - 1 ELSE open) + 1

\* initialize_sensor_with_retry, an attempt that succeeds: under SENSOR_INIT_LOCK
\* the driver is created and powered up
SupInitialize ==
  /\ sup_pc = "init"
  /\ Free("sensor")
  /\ lock_owner' = Acquire(lock_owner, "sensor", "sup")
  /\ sensor' = [exists |-> TRUE, is_initialized |-> TRUE,
                original_noise_floor |-> MediumNfLev]
  /\ reg' = [reg EXCEPT ![1] = (MediumNfLev * 16) + MediumWdth, ![3] = 144]
  /\ drv' = [drv EXCEPT !.open = OpenAfterInitialize(drv.open, sensor)]
  /\ sup_pc' = "init_status"
  /\ UNCHANGED <<now, stop_event, irq_pending, registered, status, events, noise_events,
                 noise_revert_timer, storm, alert, timers, slack_queue, irq,
                 noise_enabled, events_left, call>>

\* a status update that also resets the noise mode
InitializedStatusResetsMode(st) ==
  [st EXCEPT !.sensor_active = TRUE, !.sensor_healthy = TRUE,
             !.status_message = "Monitoring", !.last_error = "none",
             !.noise_mode = "Normal"]

\* the status fields written once the driver is up
InitializedStatus(st) ==
  [st EXCEPT !.sensor_active = TRUE, !.sensor_healthy = TRUE,
             !.status_message = "Monitoring", !.last_error = "none"]

\* ... and the status is updated under MONITORING_STATE['lock']; the call returns
\* True, and the caller starts from consecutive_failures = 0
SupInitStatus ==
  /\ sup_pc = "init_status"
  /\ Free("status")
  /\ status' = InitializedStatus(status)
  /\ lock_owner' = Release(lock_owner, "sensor")
  /\ drv' = [drv EXCEPT !.failures = 0, !.attempt = 0]
  /\ sup_pc' = "attach"
  /\ UNCHANGED <<now, stop_event, sensor, reg, irq_pending, registered, events,
                 noise_events, noise_revert_timer, storm, alert, timers, slack_queue,
                 irq, noise_enabled, events_left, call>>

\* GPIO.add_event_detect(..., callback=handle_sensor_interrupt)
SupAttach ==
  /\ sup_pc = "attach"
  /\ registered' = TRUE
  /\ drv' = [drv EXCEPT !.interrupt_configured = TRUE]
  /\ sup_pc' = "loop"
  /\ UNCHANGED <<now, stop_event, lock_owner, sensor, reg, irq_pending, status, events,
                 noise_events, noise_revert_timer, storm, alert, timers, slack_queue,
                 irq, noise_enabled, events_left, call>>

\* the loop ends on the stop signal; "finally": GPIO.remove_event_detect
SupLoopExit ==
  /\ sup_pc = "loop"
  /\ stop_event
  /\ registered' = FALSE
  /\ sup_pc' = "cleanup"
  /\ UNCHANGED <<now, stop_event, lock_owner, sensor, reg, irq_pending, status, events,
                 noise_events, noise_revert_timer, storm, alert, timers, slack_queue,
                 irq, noise_enabled, events_left, drv, call>>

\* "with SENSOR_INIT_LOCK": sensor.cleanup(), sensor = None
SupCleanup ==
  /\ sup_pc = "cleanup"
  /\ Free("sensor")
  /\ sensor' = NoSensor
  /\ drv' = [drv EXCEPT !.open = IF sensor.exists THEN @ - 1 ELSE @]
  /\ sup_pc' = "final"
  /\ UNCHANGED <<now, stop_event, lock_owner, reg, irq_pending, registered, status,
                 events, noise_events, noise_revert_timer, storm, alert, timers,
                 slack_queue, irq, noise_enabled, events_left, call>>

\* "with MONITORING_STATE['lock']": sensor_active = False
SupFinal ==
  /\ sup_pc = "final"
  /\ Free("status")
  /\ status' = [status EXCEPT !.sensor_active = FALSE, !.status_message = "Stopped"]
  /\ sup_pc' = "stopped"
  /\ UNCHANGED <<now, stop_event, lock_owner, sensor, reg, irq_pending, registered,
                 events, noise_events, noise_revert_timer, storm, alert, timers,
                 slack_queue, irq, noise_enabled, events_left, drv, call>>

(* ------------------------------ specification -------------------------- *)
IrqNext ==
  \/ IrqEnter
  \/ IrqStormCheck
  \/ IrqSensorLock
  \/ IrqReadReason
  \/ IrqDispatch
  \/ IrqException
  \/ IrqLightningRead
  \/ IrqTimerLock
  \/ IrqLightningAppend
  \/ IrqDisturber
  \/ IrqNoiseHigh

\* the clock; a callback invocation takes milliseconds, so the minute changes between
\* invocations or while the callback waits for a lock
Tick ==
  /\ now < MaxTime
  /\ irq.pc = "idle" \/ ~ENABLED IrqNext
  /\ now' = now + 1
  /\ UNCHANGED <<stop_event, lock_owner, sensor, reg, irq_pending, registered, status,
                 events, noise_events, noise_revert_timer, storm, alert, timers,
                 slack_queue, irq, sup_pc, noise_enabled, events_left, drv, call>>

SupNext ==
  \/ SupInitialize
  \/ SupInitStatus
  \/ SupAttach
  \/ SupLoopExit
  \/ SupCleanup
  \/ SupFinal

Next ==
  \/ SensorEvent
  \/ Tick
  \/ IrqNext
  \/ SupNext
  \/ SetStop
  \/ AppCleanup

\* The program from its start.  (No Timer is ever started in it, see
\* NoTimerStarted below, so the timer callbacks have no step to take.)
Spec == Init /\ [][Next]_vars

\* the threads are scheduled: a thread that can take a step eventually takes one
FairSpec == Spec /\ WF_vars(IrqNext) /\ WF_vars(SupNext) /\ WF_vars(Tick)

TimerNext ==
  \/ \E i \in TimerIds : TimerStart(i)
  \/ \E i \in TimerIds : AllClearRun(i)

(* ------------- the alert state machine with timers outstanding --------- *)
\* ALERT_STATE is module state: it outlives the monitoring thread.  A zone as earlier
\* strikes (at time 0) leave it: never struck; struck and cleared; struck, inactive,
\* its timer still pending (WARNING superseded by CRITICAL); or active with its timer
\* pending.  t1 is WARNING's timer, t2 CRITICAL's.
ZoneStates(i) ==
  { [active |-> FALSE, last |-> None, timer |-> "none"],
    [active |-> FALSE, last |-> 0, timer |-> "none"],
    [active |-> FALSE, last |-> 0, timer |-> i],
    [active |-> TRUE, last |-> 0, timer |-> i] }

\* t3: unused, or the callback of a superseded timer of a zone, which had already
\* begun (and waits for timer_lock) when it was cancelled
StaleStates(w, c) ==
  {"none"} \cup (IF w.last /= None THEN {"warning"} ELSE {})
           \cup (IF c.last /= None THEN {"critical"} ELSE {})

AlertTimers(w, c, stale) ==
  [i \in TimerIds |->
     IF i = "t1" /\ w.timer = "t1"
     THEN [level |-> "warning", due |-> AllClearTimer, st |-> "pending"]
     ELSE IF i = "t2" /\ c.timer = "t2"
     THEN [level |-> "critical", due |-> AllClearTimer, st |-> "pending"]
     ELSE IF i = "t3" /\ stale /= "none"
     THEN [level |-> stale, due |-> AllClearTimer, st |-> "started"]
     ELSE UnusedTimer]

AlertInit ==
  /\ InitCommon
  /\ noise_enabled
  /\ events_left = AlertEvents
  /\ now = 0
  /\ \E w \in ZoneStates("t1"), c \in ZoneStates("t2") :
       /\ ~(w.active /\ c.active)
       /\ \E stale \in StaleStates(w, c) :
            /\ timers = AlertTimers(w, c, stale)
            /\ alert = [warning_timer |-> w.timer, critical_timer |-> c.timer,
                        warning_active |-> w.active, critical_active |-> c.active,
                        last_warning_strike |-> w.last, last_critical_strike |-> c.last,
                        active_timers |-> {i \in TimerIds : timers[i].st /= "unused"}]

AlertSpec == AlertInit /\ [][Next \/ TimerNext]_vars

(* --------------------------- revert_noise_floor ------------------------ *)
\* the modes a revert timer is made for
RevertLevels == {"High", "Critical"}

\* revert_noise_floor without the comparison of the current mode with the timer's
revert_noise_floor_any_mode(st, r, q, nrt, level) ==
  [status |-> [st EXCEPT !.noise_mode = "Normal"],
   reg |-> set_noise_floor(r, sensor.original_noise_floor),
   noise_events |-> <<>>,
   noise_revert_timer |-> "none"]

\* revert_noise_floor, the part under both locks when the register access succeeds
revert_noise_floor(st, r, q, nrt, level) ==
  IF st.noise_mode = level
  THEN [status |-> [st EXCEPT !.noise_mode = "Normal"],
        reg |-> set_noise_floor(r, sensor.original_noise_floor),
        noise_events |-> <<>>,
        noise_revert_timer |-> "none"]
  ELSE [status |-> st, reg |-> r, noise_events |-> q, noise_revert_timer |-> nrt]

\* the Timer thread wakes when its interval has run and it was not cancelled
RevertStart(i) ==
  /\ timers[i].st = "pending"
  /\ timers[i].level \in RevertLevels
  /\ now >= timers[i].due
  /\ timers' = [timers EXCEPT ![i].st = "started"]
  /\ UNCHANGED <<now, stop_event, lock_owner, sensor, reg, irq_pending, registered,
                 status, events, noise_events, noise_revert_timer, storm, alert,
                 slack_queue, irq, sup_pc, noise_enabled, events_left, drv, call>>

\* "with SENSOR_INIT_LOCK: if sensor and sensor.is_initialized:"
RevertSensorLock(i) ==
  /\ timers[i].st = "started"
  /\ timers[i].level \in RevertLevels
  /\ Free("sensor")
  /\ IF SensorLive
     THEN /\ lock_owner' = Acquire(lock_owner, "sensor", i)
          /\ timers' = [timers EXCEPT ![i].st = "locked"]
     ELSE /\ timers' = [timers EXCEPT ![i].st = "done"]
          /\ UNCHANGED lock_owner
  /\ UNCHANGED <<now, stop_event, sensor, reg, irq_pending, registered,
                 status, events, noise_events, noise_revert_timer, storm, alert,
                 slack_queue, irq, sup_pc, noise_enabled, events_left, drv, call>>

\* "with MONITORING_STATE['lock']": the revert.  ok = FALSE: the register access
\* of set_noise_floor fails (IOError), and its handler takes MONITORING_STATE['lock'],
\* which this thread holds
RevertRun(i) ==
  /\ timers[i].st = "locked"
  /\ Free("status")
  /\ \E ok \in BOOLEAN :
       IF ok \/ status.noise_mode /= timers[i].level
       THEN LET r == revert_noise_floor(status, reg, noise_events, noise_revert_timer,
                                        timers[i].level)
            IN /\ status' = r.status
               /\ reg' = r.reg
               /\ noise_events' = r.noise_events
               /\ noise_revert_timer' = r.noise_revert_timer
               /\ timers' = [timers EXCEPT ![i].st = "done"]
               /\ lock_owner' = Release(lock_owner, "sensor")
       ELSE /\ timers' = [timers EXCEPT ![i].st = "blocked"]
            /\ lock_owner' = Acquire(lock_owner, "status", i)
            /\ UNCHANGED <<status, reg, noise_events, noise_revert_timer>>
  /\ UNCHANGED <<now, stop_event, sensor, irq_pending, registered, events, storm, alert,
                 slack_queue, irq, sup_pc, noise_enabled, events_left, drv, call>>

RevertNext ==
  \/ \E i \in TimerIds : RevertStart(i)
  \/ \E i \in TimerIds : RevertSensorLock(i)
  \/ \E i \in TimerIds : RevertRun(i)

(* --------------- the noise modes with revert timers outstanding -------- *)
\* MONITORING_STATE outlives the monitoring thread.  The noise mode as earlier
\* interrupts (at time 0) leave it, with the revert timer t1 made for it
NoiseStates ==
  { [mode |-> "Normal", timer |-> "none", floor |-> MediumNfLev, window |-> <<>>],
    [mode |-> "High", timer |-> "t1", floor |-> RaisedNoiseFloor,
     window |-> [k \in 1..EventThreshold |-> 0]],
    [mode |-> "Critical", timer |-> "t1", floor |-> MaxNoiseFloor,
     window |-> [k \in 1..EventThreshold |-> 0]] }

\* t2: unused, or the callback of an earlier revert timer, which had already begun
\* when it was cancelled
NoiseTimers(n, stale) ==
  [i \in TimerIds |->
     IF i = "t1" /\ n.timer = "t1"
     THEN [level |-> n.mode, due |-> RevertDelay, st |-> "pending"]
     ELSE IF i = "t2" /\ stale /= "none"
     THEN [level |-> stale, due |-> RevertDelay, st |-> "started"]
     ELSE UnusedTimer]

\* the monitoring thread has yet to start, or it runs with the driver up, the
\* noise floor as the mode left it
NoiseInit ==
  /\ now = 0
  /\ call = NoCall
  /\ stop_event = FALSE
  /\ lock_owner = [l \in Locks |-> "none"]
  /\ irq_pending = FALSE
  /\ events = <<>>
  /\ storm = InitStorm
  /\ slack_queue = <<>>
  /\ irq = InitIrq
  /\ alert = InitAlert
  /\ noise_enabled = TRUE
  /\ events_left = NoiseEvents
  /\ \E n \in NoiseStates, stale \in {"none"} \cup RevertLevels, running \in BOOLEAN :
       /\ timers = NoiseTimers(n, stale)
       /\ noise_revert_timer = n.timer
       /\ noise_events = n.window
       /\ IF running
          THEN /\ sensor = [exists |-> TRUE, is_initialized |-> TRUE,
                            original_noise_floor |-> MediumNfLev]
               /\ reg = [a \in RegAddrs |-> IF a = 1 THEN (n.floor * 16) + MediumWdth
                                            ELSE IF a = 3 THEN 144 ELSE 0]
               /\ registered = TRUE
               /\ status = [InitializedStatus(InitStatus) EXCEPT !.noise_mode = n.mode]
               /\ sup_pc = "loop"
               /\ drv = [InitDrv EXCEPT !.open = 1]
          ELSE /\ sensor = NoSensor
               /\ reg = [a \in RegAddrs |-> 0]
               /\ registered = FALSE
               /\ status = [InitStatus EXCEPT !.noise_mode = n.mode]
               /\ sup_pc = "init"
               /\ drv = InitDrv

NoiseSpec == NoiseInit /\ [][Next \/ RevertNext]_vars

(* --------------------- one interrupt, any reason ----------------------- *)
\* the values of the interrupt register: every reason nibble, under a clear and
\* under a set upper nibble
ReasonRegisters == {h + r : h \in {0, 144}, r \in 0..15}

\* the monitoring thread is in its loop, the chip has latched an event of any
\* reason (with a strike's distance and energy) and the edge waits for the callback
DispatchInit ==
  /\ now = 0
  /\ call = NoCall
  /\ stop_event = FALSE
  /\ drv = [InitDrv EXCEPT !.open = 1]
  /\ lock_owner = [l \in Locks |-> "none"]
  /\ sensor = [exists |-> TRUE, is_initialized |-> TRUE,
               original_noise_floor |-> MediumNfLev]
  /\ irq_pending = TRUE
  /\ registered = TRUE
  /\ status = InitializedStatus(InitStatus)
  /\ events = <<>>
  /\ noise_events = <<>>
  /\ noise_revert_timer = "none"
  /\ storm = InitStorm
  /\ irq = InitIrq
  /\ sup_pc = "loop"
  /\ noise_enabled \in BOOLEAN
  /\ alert = InitAlert
  /\ timers = [i \in TimerIds |-> UnusedTimer]
  /\ events_left = 0
  /\ slack_queue = <<>>
  /\ \E v \in ReasonRegisters, d \in Distances, e \in Energies :
       reg = [a \in RegAddrs |->
                IF a = 1 THEN (MediumNfLev * 16) + MediumWdth
                ELSE IF a = 3 THEN v
                ELSE IF a = 7 THEN d
                ELSE IF a = 4 THEN EnergyBytes(e)[1]
                ELSE IF a = 5 THEN EnergyBytes(e)[2]
                ELSE EnergyBytes(e)[3]]

DispatchSpec == DispatchInit /\ [][IrqNext]_vars

(* ----------------------------- event buffer ---------------------------- *)
\* the record of the i-th of the earlier strikes, too far away for an alert
StoredEvent(i) ==
  [timestamp |-> 0, distance |-> 40, energy |-> i, alert_sent |-> FALSE,
   alert_level |-> "none"]

\* the monitoring loop runs and the buffer holds the records of earlier strikes:
\* it is full or one short of full
BufferInit ==
  /\ stop_event = FALSE
  /\ call = NoCall
  /\ drv = [InitDrv EXCEPT !.open = 1, !.interrupt_configured = TRUE]
  /\ lock_owner = [l \in Locks |-> "none"]
  /\ sensor = [exists |-> TRUE, is_initialized |-> TRUE,
               original_noise_floor |-> MediumNfLev]
  /\ reg = [a \in RegAddrs |-> IF a = 1 THEN (MediumNfLev * 16) + MediumWdth
                                ELSE IF a = 3 THEN 144 ELSE 0]
  /\ irq_pending = FALSE
  /\ registered = TRUE
  /\ status = [InitializedStatus(InitStatus) EXCEPT !.last_reading = 0]
  /\ \E n \in {EventsMaxLen - 1, EventsMaxLen} : events = [i \in 1..n |-> StoredEvent(i)]
  /\ noise_events = <<>>
  /\ noise_revert_timer = "none"
  /\ storm = [InitStorm EXCEPT !.last_interrupt_time = 0]
  /\ slack_queue = <<>>
  /\ irq = InitIrq
  /\ sup_pc = "loop"
  /\ noise_enabled \in BOOLEAN
  /\ events_left = BufferEvents
  /\ now = 0
  /\ alert = InitAlert
  /\ timers = [i \in TimerIds |-> UnusedTimer]

BufferSpec == BufferInit /\ [][SensorEvent \/ Tick \/ IrqNext]_vars

(* ------------------- a disturber window near its cap ------------------- *)
\* numbers of entries of the window that date from time 0; the others date from
\* time 1
WindowMarks == {0, 1, NoiseEventsMaxLen - 1, NoiseEventsMaxLen}

\* noise_events as n earlier disturbers leave it, k of them at time 0
PastWindow(n, k) == [i \in 1..n |-> IF i <= k THEN 0 ELSE 1]

\* the monitoring thread is in its loop at time 1, the noise mode raised by earlier
\* disturbers with its revert timer t1 pending, and the window one short of
\* maxlen or at it
WindowInit ==
  /\ now = 1
  /\ call = NoCall
  /\ stop_event = FALSE
  /\ lock_owner = [l \in Locks |-> "none"]
  /\ irq_pending = FALSE
  /\ events = <<>>
  /\ storm = [InitStorm EXCEPT !.last_interrupt_time = 0]
  /\ slack_queue = <<>>
  /\ irq = InitIrq
  /\ alert = InitAlert
  /\ noise_enabled = TRUE
  /\ events_left = WindowEvents
  /\ sensor = [exists |-> TRUE, is_initialized |-> TRUE,
               original_noise_floor |-> MediumNfLev]
  /\ registered = TRUE
  /\ sup_pc = "loop"
  /\ drv = [InitDrv EXCEPT !.open = 1, !.interrupt_configured = TRUE]
  /\ noise_revert_timer = "t1"
  /\ \E mode \in RevertLevels :
       /\ status = [InitializedStatus(InitStatus) EXCEPT !.noise_mode = mode,
                                                         !.last_reading = 0]
       /\ reg = [a \in RegAddrs |->
                  IF a = 1 THEN ((IF mode = "High" THEN RaisedNoiseFloor
                                                  ELSE MaxNoiseFloor) * 16) + MediumWdth
                  ELSE IF a = 3 THEN 144 ELSE 0]
       /\ timers = [i \in TimerIds |->
                     IF i = "t1" THEN [level |-> mode, due |-> 1 + RevertDelay,
                                       st |-> "pending"]
                     ELSE UnusedTimer]
  /\ \E n \in {NoiseEventsMaxLen - 1, NoiseEventsMaxLen} :
       \E k \in WindowMarks : k <= n /\ noise_events = PastWindow(n, k)

WindowSpec == WindowInit /\ [][SensorEvent \/ Tick \/ IrqNext \/ RevertNext]_vars

(* ------------------------- interrupt storm guard ----------------------- *)
\* re_enable_interrupt, run by its Timer 5 s after the storm was detected (the
\* clock has moved on): GPIO.add_event_detect
ReEnableAttach ==
  /\ storm.re_enable > 0
  /\ storm.re_enable_pc \in {"wait", "done"}
  /\ registered' = TRUE
  /\ now' = IF now = storm.last_interrupt_time THEN now + 1 ELSE now
  /\ storm' = [storm EXCEPT !.re_enable_pc = "reset"]
  /\ UNCHANGED <<stop_event, lock_owner, sensor, reg, irq_pending, status, events,
                 noise_events, noise_revert_timer, alert, timers, slack_queue, irq,
                 sup_pc, noise_enabled, events_left, drv, call>>

\* ... then, under MONITORING_STATE['lock'], the flag and the count are reset
ReEnableReset ==
  /\ storm.re_enable_pc = "reset"
  /\ Free("status")
  /\ storm' = [storm EXCEPT !.interrupt_storm_detected = FALSE, !.interrupt_count = 0,
                            !.re_enable = @ - 1, !.re_enable_pc = "done"]
  /\ UNCHANGED <<now, stop_event, lock_owner, sensor, reg, irq_pending, registered,
                 status, events, noise_events, noise_revert_timer, alert, timers,
                 slack_queue, irq, sup_pc, noise_enabled, events_left, drv, call>>

StormNext == ReEnableAttach \/ ReEnableReset

\* the monitoring loop runs and the callback has just handled, one quickly after
\* the other, as many interrupts of no known cause as the guard lets pass, or one
\* fewer
StormInit ==
  /\ stop_event = FALSE
  /\ call = NoCall
  /\ drv = [InitDrv EXCEPT !.open = 1, !.interrupt_configured = TRUE]
  /\ lock_owner = [l \in Locks |-> "none"]
  /\ sensor = [exists |-> TRUE, is_initialized |-> TRUE,
               original_noise_floor |-> MediumNfLev]
  /\ reg = [a \in RegAddrs |-> IF a = 1 THEN (MediumNfLev * 16) + MediumWdth
                                ELSE IF a = 3 THEN 144 ELSE 0]
  /\ irq_pending = FALSE
  /\ registered = TRUE
  /\ status = [InitializedStatus(InitStatus) EXCEPT !.last_reading = 0]
  /\ events = <<>>
  /\ noise_events = <<>>
  /\ noise_revert_timer = "none"
  /\ \E c \in {StormCount - 1, StormCount} :
       storm = [InitStorm EXCEPT !.last_interrupt_time = 0, !.interrupt_count = c]
  /\ slack_queue = <<>>
  /\ irq = InitIrq
  /\ sup_pc = "loop"
  /\ noise_enabled \in BOOLEAN
  /\ events_left = StormEvents
  /\ now = 0
  /\ alert = InitAlert
  /\ timers = [i \in TimerIds |-> UnusedTimer]

\* the callback and the re-enable timer in a burst of interrupts, both scheduled
StormSpec ==
  /\ StormInit /\ [][SensorEvent \/ IrqNext \/ StormNext]_vars
  /\ WF_vars(IrqNext) /\ WF_vars(StormNext)

\* the same burst with a stop request arriving at any moment and the monitoring
\* thread leaving its loop and cleaning up
StormStopSpec ==
  StormInit /\ [][SensorEvent \/ IrqNext \/ StormNext \/ SetStop \/ SupLoopExit
                    \/ SupCleanup \/ SupFinal]_vars

(* ------------------- health checks and re-initialization --------------- *)
\* perform_sensor_health_check, called by the monitoring loop when the check
\* interval has run: "with SENSOR_INIT_LOCK"
SupHealthLock ==
  /\ sup_pc = "loop"
  /\ Free("sensor")
  /\ lock_owner' = Acquire(lock_owner, "sensor", "sup")
  /\ sup_pc' = "health"
  /\ UNCHANGED <<now, stop_event, sensor, reg, irq_pending, registered, status, events,
                 noise_events, noise_revert_timer, storm, alert, timers, slack_queue,
                 irq, noise_enabled, events_left, drv, call>>

\* a counter that a passed check does not reset
NextFailuresNoReset(f, passed) == f + 1

\* consecutive_failures after a health check
NextFailures(f, passed) == IF passed THEN 0 ELSE f + 1

\* the register reads of the health check: they pass ("ok"), the check returns
\* False ("bad": powered down, no answer), or a read raises ("error"); a failed
\* check is counted, and the third in a row starts the recovery
SupHealthRun ==
  /\ sup_pc = "health"
  /\ Free("status")
  /\ \E outcome \in {"ok", "bad", "error"} :
       IF SensorLive /\ outcome = "ok"
       THEN /\ status' = [status EXCEPT !.sensor_healthy = TRUE, !.last_error = "none"]
            /\ drv' = [drv EXCEPT !.failures = NextFailures(@, TRUE),
                                  !.last_check = "passed"]
            /\ sup_pc' = "loop"
       ELSE /\ status' = IF SensorLive /\ outcome = "error"
                         THEN [status EXCEPT !.sensor_healthy = FALSE,
                                             !.last_error = "SPI error"]
                         ELSE status
            /\ drv' = [drv EXCEPT !.failures = NextFailures(@, FALSE),
                                  !.last_check = "failed"]
            /\ sup_pc' = IF NextFailures(drv.failures, FALSE) >= MaxConsecutiveFailures
                         THEN "recover" ELSE "loop"
  /\ lock_owner' = Release(lock_owner, "sensor")
  /\ UNCHANGED <<now, stop_event, sensor, reg, irq_pending, registered, events,
                 noise_events, noise_revert_timer, storm, alert, timers, slack_queue,
                 irq, noise_enabled, events_left, call>>

\* recovery: GPIO.remove_event_detect, then initialize_sensor_with_retry(max_retries=3)
SupRecover ==
  /\ sup_pc = "recover"
  /\ registered' = FALSE
  /\ drv' = [drv EXCEPT !.max_retries = RecoverRetries, !.attempt = 0]
  /\ sup_pc' = "init"
  /\ UNCHANGED <<now, stop_event, lock_owner, sensor, reg, irq_pending, status, events,
                 noise_events, noise_revert_timer, storm, alert, timers, slack_queue,
                 irq, noise_enabled, events_left, call>>

\* the /health route: "with SENSOR_INIT_LOCK"
AppHealthLock ==
  /\ drv.app_pc = "idle"
  /\ Free("sensor")
  /\ lock_owner' = Acquire(lock_owner, "sensor", "app")
  /\ drv' = [drv EXCEPT !.app_pc = "health"]
  /\ UNCHANGED <<now, stop_event, sensor, reg, irq_pending, registered, status, events,
                 noise_events, noise_revert_timer, storm, alert, timers, slack_queue,
                 irq, sup_pc, noise_enabled, events_left, call>>

\* the /health route reads register 0x00 if a sensor is live and leaves the lock
AppHealthRead ==
  /\ drv.app_pc = "health"
  /\ lock_owner' = Release(lock_owner, "sensor")
  /\ drv' = [drv EXCEPT !.app_pc = "idle"]
  /\ UNCHANGED <<now, stop_event, sensor, reg, irq_pending, registered, status, events,
                 noise_events, noise_revert_timer, storm, alert, timers, slack_queue,
                 irq, sup_pc, noise_enabled, events_left, call>>

HealthNext == SupHealthLock \/ SupHealthRun \/ SupRecover \/ AppHealthLock \/ AppHealthRead

LifeInit ==
  /\ InitCommon
  /\ events_left = LifeEvents
  /\ now = 0
  /\ alert = InitAlert
  /\ timers = [i \in TimerIds |-> UnusedTimer]

LifeSpec == LifeInit /\ [][Next \/ HealthNext]_vars

(* ------------- initialize_sensor_with_retry: failing attempts ---------- *)
\* 2 ** attempt
RECURSIVE Pow2(_)
Pow2(k) == IF k = 0 THEN 1 ELSE 2 * Pow2(k - 1)

\* "delay = retry_delay * (2 ** attempt)", "for _ in range(delay * 10)"
BackoffPolls(attempt) == RetryDelay * Pow2(attempt) * PollsPerSecond

\* where an attempt can fail: in the constructor (the name "sensor" stays None) or
\* at the test read after it (the name "sensor" is bound to the new driver)
FailurePoints == {"constructor", "test_read"}

\* an attempt that fails, under SENSOR_INIT_LOCK: the old driver is cleaned up,
\* the constructor closes what it opened when it raises, the test read does not;
\* a constructor that returns has written the status in power_up, under
\* MONITORING_STATE['lock']
SupInitFail ==
  /\ sup_pc = "init"
  /\ Free("sensor")
  /\ \E point \in FailurePoints :
       IF point = "constructor"
       THEN /\ sensor' = NoSensor
            /\ drv' = [drv EXCEPT !.open = IF sensor.exists THEN @ - 1 ELSE @]
            /\ reg' = reg
       ELSE /\ Free("status")
            /\ sensor' = [exists |-> TRUE, is_initialized |-> TRUE,
                          original_noise_floor |-> MediumNfLev]
            /\ drv' = [drv EXCEPT !.open = OpenAfterInitialize(drv.open, sensor)]
            /\ reg' = [reg EXCEPT ![1] = (MediumNfLev * 16) + MediumWdth, ![3] = 144]
  /\ sup_pc' = "init_except"
  /\ UNCHANGED <<now, stop_event, lock_owner, irq_pending, registered, status, events,
                 noise_events, noise_revert_timer, storm, alert, timers, slack_queue,
                 irq, noise_enabled, events_left, call>>

\* "except Exception": the failure is recorded under MONITORING_STATE['lock'];
\* the last attempt leaves the loop, any other starts the backoff wait
SupInitExcept ==
  /\ sup_pc = "init_except"
  /\ Free("status")
  /\ status' = [status EXCEPT !.sensor_active = FALSE, !.sensor_healthy = FALSE,
                              !.last_error = "init error",
                              !.status_message = "Init failed"]
  /\ IF drv.attempt < drv.max_retries - 1
     THEN /\ drv' = [drv EXCEPT !.wait = BackoffPolls(drv.attempt)]
          /\ sup_pc' = "backoff"
     ELSE /\ drv' = drv
          /\ sup_pc' = "give_up"
  /\ UNCHANGED <<now, stop_event, lock_owner, sensor, reg, irq_pending, registered,
                 events, noise_events, noise_revert_timer, storm, alert, timers,
                 slack_queue, irq, noise_enabled, events_left, call>>

\* one round of the interruptible sleep: "if stop_event.is_set(): return False",
\* else sleep 0.1 s; after the last round the next attempt starts
SupBackoff ==
  /\ sup_pc = "backoff"
  /\ IF drv.wait = 0
     THEN /\ drv' = [drv EXCEPT !.attempt = @ + 1]
          /\ sup_pc' = "init"
     ELSE IF stop_event
     THEN /\ drv' = [drv EXCEPT !.wait = 0]
          /\ sup_pc' = "init_failed"
     ELSE /\ drv' = [drv EXCEPT !.wait = @ - 1]
          /\ sup_pc' = "backoff"
  /\ UNCHANGED <<now, stop_event, lock_owner, sensor, reg, irq_pending, registered,
                 status, events, noise_events, noise_revert_timer, storm, alert, timers,
                 slack_queue, irq, noise_enabled, events_left, call>>

\* all retries exhausted: the status message, under MONITORING_STATE['lock']
SupGiveUp ==
  /\ sup_pc = "give_up"
  /\ Free("status")
  /\ status' = [status EXCEPT !.status_message = "Fatal: Max retries exceeded"]
  /\ sup_pc' = "init_failed"
  /\ UNCHANGED <<now, stop_event, lock_owner, sensor, reg, irq_pending, registered,
                 events, noise_events, noise_revert_timer, storm, alert, timers,
                 slack_queue, irq, noise_enabled, events_left, drv, call>>

\* initialize_sensor_with_retry returned False: at start-up lightning_monitoring
\* returns, in the loop it breaks to the "finally"
SupInitFailed ==
  /\ sup_pc = "init_failed"
  /\ sup_pc' = IF drv.interrupt_configured THEN "cleanup" ELSE "dead"
  /\ UNCHANGED <<now, stop_event, lock_owner, sensor, reg, irq_pending, registered,
                 status, events, noise_events, noise_revert_timer, storm, alert, timers,
                 slack_queue, irq, noise_enabled, events_left, drv, call>>

\* GPIO.add_event_detect raises: at start-up the error is recorded under
\* MONITORING_STATE['lock'] and lightning_monitoring returns, in the loop it
\* breaks to the "finally"
SupAttachFail ==
  /\ sup_pc = "attach"
  /\ IF drv.interrupt_configured
     THEN /\ status' = status
          /\ sup_pc' = "cleanup"
     ELSE /\ Free("status")
          /\ status' = [status EXCEPT !.sensor_healthy = FALSE,
                                      !.last_error = "GPIO error"]
          /\ sup_pc' = "dead"
  /\ UNCHANGED <<now, stop_event, lock_owner, sensor, reg, irq_pending, registered,
                 events, noise_events, noise_revert_timer, storm, alert, timers,
                 slack_queue, irq, noise_enabled, events_left, drv, call>>

RetryNext ==
  \/ SupInitFail
  \/ SupInitExcept
  \/ SupBackoff
  \/ SupGiveUp
  \/ SupInitFailed
  \/ SupAttachFail

\* the monitoring thread alone, with a sensor that may fail at any attempt and at
\* any health check, and a shutdown request at any moment
RetrySpec ==
  LifeInit /\ [][SupNext \/ SupHealthLock \/ SupHealthRun \/ SupRecover \/ RetryNext
                  \/ SetStop]_vars

\* ... and the monitoring thread is scheduled; the "while" test of the loop comes
\* after every health check
FairRetrySpec ==
  /\ RetrySpec
  /\ WF_vars(SupNext \/ SupHealthRun \/ SupRecover \/ RetryNext)
  /\ SF_vars(SupLoopExit)

(* --------------------------- monitoring_watchdog ----------------------- *)
\* thread.is_alive() of the monitoring thread
ThreadAlive == sup_pc \notin {"dead", "stopped"}

\* "if new_thread.is_alive()" after time.sleep(5)
AliveAfterSleep(alive) == alive

\* the 60 one-second rounds of the wait: the watchdog returns when it sees the stop
\* signal, else it goes on to the check
WdWait ==
  /\ drv.wd_pc = "wait"
  /\ drv' = [drv EXCEPT !.wd_pc = IF stop_event THEN "exit" ELSE "check"]
  /\ UNCHANGED <<now, stop_event, lock_owner, sensor, reg, irq_pending, registered,
                 status, events, noise_events, noise_revert_timer, storm, alert, timers,
                 slack_queue, irq, sup_pc, noise_enabled, events_left, call>>

\* the check under MONITORING_STATE['lock']: a live thread resets the count; a
\* dead one is counted, and at max_failures the watchdog writes the status and
\* returns; else it clears the stop signal, starts a new monitoring thread and
\* sleeps, still inside the "with"
WdCheck ==
  /\ drv.wd_pc = "check"
  /\ Free("status")
  /\ IF ThreadAlive
     THEN /\ drv' = [drv EXCEPT !.wd_failures = 0, !.wd_pc = "wait"]
          /\ UNCHANGED <<stop_event, lock_owner, status, sup_pc>>
     ELSE IF ~drv.auto_start
     THEN /\ drv' = [drv EXCEPT !.wd_pc = "wait"]
          /\ UNCHANGED <<stop_event, lock_owner, status, sup_pc>>
     ELSE IF drv.wd_failures + 1 >= MaxFailures
     THEN /\ drv' = [drv EXCEPT !.wd_failures = @ + 1, !.wd_pc = "exit"]
          /\ status' = [status EXCEPT !.status_message = "Fatal: Too many failures"]
          /\ UNCHANGED <<stop_event, lock_owner, sup_pc>>
     ELSE /\ drv' = [drv EXCEPT !.wd_failures = @ + 1, !.wd_pc = "sleep",
                                !.failures = 0, !.attempt = 0, !.wait = 0,
                                !.max_retries = InitRetries,
                                !.interrupt_configured = FALSE,
                                !.last_check = "none"]
          /\ stop_event' = FALSE
          /\ sup_pc' = "init"
          /\ lock_owner' = Acquire(lock_owner, "status", "wd")
          /\ status' = status
  /\ UNCHANGED <<now, sensor, reg, irq_pending, registered, events, noise_events,
                 noise_revert_timer, storm, alert, timers, slack_queue, irq,
                 noise_enabled, events_left, call>>

\* after time.sleep(5): "if new_thread.is_alive(): consecutive_failures = 0", and
\* the "with" ends
WdAfterSleep ==
  /\ drv.wd_pc = "sleep"
  /\ drv' = [drv EXCEPT !.wd_failures = IF AliveAfterSleep(ThreadAlive) THEN 0 ELSE @,
                        !.wd_pc = "wait"]
  /\ lock_owner' = Release(lock_owner, "status")
  /\ UNCHANGED <<now, stop_event, sensor, reg, irq_pending, registered, status, events,
                 noise_events, noise_revert_timer, storm, alert, timers, slack_queue,
                 irq, sup_pc, noise_enabled, events_left, call>>

WdNext == WdWait \/ WdCheck \/ WdAfterSleep

\* a monitoring thread whose sensor never comes up
InitFailsNext ==
  \/ SupInitFail
  \/ SupInitExcept
  \/ SupBackoff
  \/ SupGiveUp
  \/ SupInitFailed

WatchInit ==
  /\ stop_event = FALSE
  /\ call = NoCall
  /\ \E a \in BOOLEAN : drv = [InitDrv EXCEPT !.auto_start = a]
  /\ lock_owner = [l \in Locks |-> "none"]
  /\ sensor = NoSensor
  /\ reg = [a \in RegAddrs |-> 0]
  /\ irq_pending = FALSE
  /\ registered = FALSE
  /\ status = InitStatus
  /\ events = <<>>
  /\ noise_events = <<>>
  /\ noise_revert_timer = "none"
  /\ storm = InitStorm
  /\ slack_queue = <<>>
  /\ irq = InitIrq
  /\ sup_pc = "init"
  /\ noise_enabled = TRUE
  /\ events_left = 0
  /\ now = 0
  /\ alert = InitAlert
  /\ timers = [i \in TimerIds |-> UnusedTimer]

WatchNext == WdNext \/ InitFailsNext \/ SetStop

\* the watchdog and the monitoring threads it starts, with a sensor that fails at
\* every attempt; both threads are scheduled
WatchSpec ==
  WatchInit /\ [][WatchNext]_vars /\ WF_vars(WdNext) /\ WF_vars(InitFailsNext)

(* ----------------------------- SLACK_QUEUE ----------------------------- *)
\* the levels a notification can carry: the three AlertLevel members and None
MessageLevels == {"warning", "critical", "all_clear", "none"}

\* the message queued i-th; queued messages are told apart by their energy field
QueuedMsg(i, low) ==
  IF low
  THEN IF i % 2 = 0 THEN Msg("all_clear", "warning", None, i) ELSE Msg("none", "none", None, i)
  ELSE IF i % 2 = 0 THEN Msg("warning", "none", WarningDistance, i)
       ELSE Msg("critical", "none", CriticalDistance, i)

\* positions that hold a message below WARNING in the mixed queues
QueueMarks == {1, 2, SlackQueueMaxSize \div 2, SlackQueueMaxSize}

\* queues full or one short of full: all below WARNING, or below WARNING at some of
\* the marked positions only (at none of them: all WARNING/CRITICAL)
QueueStates ==
  {[i \in 1..n |-> QueuedMsg(i, i \in low)] :
     n \in {SlackQueueMaxSize - 1, SlackQueueMaxSize},
     low \in {1..SlackQueueMaxSize} \cup SUBSET QueueMarks}

\* send_slack_notification called by some thread
SlackSend ==
  /\ events_left > 0
  /\ \E level \in MessageLevels :
       LET msg == Msg(level, IF level = "all_clear" THEN "critical" ELSE "none",
                      IF IsHigh(level) THEN CriticalDistance ELSE None,
                      SlackQueueMaxSize + events_left)
       IN /\ slack_queue' = send_slack_notification(slack_queue, msg)
          /\ call' = [op |-> "send", msg |-> msg]
  /\ events_left' = events_left - 1
  /\ UNCHANGED <<now, stop_event, lock_owner, sensor, reg, irq_pending, registered,
                 status, events, noise_events, noise_revert_timer, storm, alert, timers,
                 irq, sup_pc, noise_enabled, drv>>

\* slack_worker takes the oldest message off the queue
SlackGet ==
  /\ slack_queue /= <<>>
  /\ Len(slack_queue) > SlackQueueMaxSize - QueueDrain
  /\ slack_queue' = Tail(slack_queue)
  /\ UNCHANGED <<now, stop_event, lock_owner, sensor, reg, irq_pending, registered,
                 status, events, noise_events, noise_revert_timer, storm, alert, timers,
                 irq, sup_pc, noise_enabled, events_left, drv, call>>

QueueNext == SlackSend \/ SlackGet

QueueInit ==
  /\ now = 0
  /\ call = NoCall
  /\ stop_event = FALSE
  /\ drv = InitDrv
  /\ lock_owner = [l \in Locks |-> "none"]
  /\ sensor = NoSensor
  /\ reg = [a \in RegAddrs |-> 0]
  /\ irq_pending = FALSE
  /\ registered = FALSE
  /\ status = InitStatus
  /\ events = <<>>
  /\ noise_events = <<>>
  /\ noise_revert_timer = "none"
  /\ storm = InitStorm
  /\ irq = InitIrq
  /\ sup_pc = "init"
  /\ noise_enabled = TRUE
  /\ alert = InitAlert
  /\ timers = [i \in TimerIds |-> UnusedTimer]
  /\ events_left = QueueEvents
  /\ slack_queue \in QueueStates

QueueSpec == QueueInit /\ [][QueueNext]_vars

(* ------------------------------ slack_worker --------------------------- *)
\* the None that ends the worker
ShutdownSignal == Msg("shutdown_signal", "none", None, None)

\* the queue at the start: up to WorkerMsgs items, each a message at or above
\* WARNING, a message below it, or the shutdown signal
WorkerQueues ==
  UNION {[1..n -> {"high", "low", "shutdown"}] : n \in 0..WorkerMsgs}

WorkerQueue(kinds) ==
  [i \in 1..Len(kinds) |->
     IF kinds[i] = "shutdown" THEN ShutdownSignal ELSE QueuedMsg(i, kinds[i] = "low")]

\* the worker, waiting in SLACK_QUEUE.get; nothing sent or logged yet
InitWorker ==
  [op |-> "slack_worker", pc |-> "get", msg |-> ShutdownSignal, attempt |-> 0,
   done |-> <<>>, errors |-> 0]

\* a worker that puts the message back after the last failed attempt
QueueAfterFailureRequeues(q, msg) == Append(q, msg)

\* the queue after the last failed attempt: "app.logger.error(...)" and no more
QueueAfterFailure(q, msg) == q

\* a thread queues a notification while the worker runs
SlackPut ==
  /\ call.op = "slack_worker"
  /\ events_left > 0
  /\ \E level \in MessageLevels :
       slack_queue' =
         send_slack_notification(slack_queue,
           Msg(level, IF level = "all_clear" THEN "critical" ELSE "none",
               IF IsHigh(level) THEN CriticalDistance ELSE None,
               SlackQueueMaxSize + events_left))
  /\ events_left' = events_left - 1
  /\ UNCHANGED <<now, stop_event, lock_owner, sensor, reg, irq_pending, registered,
                 status, events, noise_events, noise_revert_timer, storm, alert, timers,
                 irq, sup_pc, noise_enabled, drv, call>>

\* "message_data = SLACK_QUEUE.get(timeout=1)": the oldest item leaves the queue;
\* None ends the worker (an empty queue raises Empty and the worker waits again)
WorkerGet ==
  /\ call.op = "slack_worker"
  /\ call.pc = "get"
  /\ slack_queue /= <<>>
  /\ slack_queue' = Tail(slack_queue)
  /\ call' = IF Head(slack_queue) = ShutdownSignal
             THEN [call EXCEPT !.pc = "exit"]
             ELSE [call EXCEPT !.pc = "send", !.msg = Head(slack_queue), !.attempt = 0]
  /\ UNCHANGED <<now, stop_event, lock_owner, sensor, reg, irq_pending, registered,
                 status, events, noise_events, noise_revert_timer, storm, alert, timers,
                 irq, sup_pc, noise_enabled, events_left, drv>>

\* one round of "for attempt in range(3)": _send_slack_notification_internal
\* returns (sent, no token, or a failed post it has logged itself) or raises; the
\* third exception is logged, the earlier ones are followed by a sleep
WorkerSend ==
  /\ call.op = "slack_worker"
  /\ call.pc = "send"
  /\ \E outcome \in {"returned", "raised"} :
       IF outcome = "returned"
       THEN /\ call' = [call EXCEPT !.pc = "get", !.done = Append(@, call.msg)]
            /\ slack_queue' = slack_queue
       ELSE IF call.attempt = SendAttempts - 1
       THEN /\ call' = [call EXCEPT !.pc = "get", !.done = Append(@, call.msg),
                                    !.errors = @ + 1]
            /\ slack_queue' = QueueAfterFailure(slack_queue, call.msg)
       ELSE /\ call' = [call EXCEPT !.attempt = @ + 1]
            /\ slack_queue' = slack_queue
  /\ UNCHANGED <<now, stop_event, lock_owner, sensor, reg, irq_pending, registered,
                 status, events, noise_events, noise_revert_timer, storm, alert, timers,
                 irq, sup_pc, noise_enabled, events_left, drv>>

WorkerNext == SlackPut \/ WorkerGet \/ WorkerSend

WorkerInit ==
  /\ now = 0
  /\ call = InitWorker
  /\ stop_event = FALSE
  /\ drv = InitDrv
  /\ lock_owner = [l \in Locks |-> "none"]
  /\ sensor = NoSensor
  /\ reg = [a \in RegAddrs |-> 0]
  /\ irq_pending = FALSE
  /\ registered = FALSE
  /\ status = InitStatus
  /\ events = <<>>
  /\ noise_events = <<>>
  /\ noise_revert_timer = "none"
  /\ storm = InitStorm
  /\ irq = InitIrq
  /\ sup_pc = "init"
  /\ noise_enabled = TRUE
  /\ alert = InitAlert
  /\ timers = [i \in TimerIds |-> UnusedTimer]
  /\ events_left = WorkerEvents
  /\ \E kinds \in WorkerQueues : slack_queue = WorkerQueue(kinds)

\* the worker thread and the threads that queue notifications
WorkerSpec == WorkerInit /\ [][WorkerNext]_vars

(* ------------- send_slack_notification on a full queue, by steps ------- *)
\* the WARNING/CRITICAL message whose put_nowait found the queue full
ForcedMsg == Msg("critical", "none", CriticalDistance, SlackQueueMaxSize + DrainEvents + 1)

\* the sending thread after the failed put_nowait: about to drain the queue
InitSend == [pc |-> "drain", temp_queue |-> <<>>, removed |-> FALSE]

\* one pass of "while not SLACK_QUEUE.empty()": get_nowait; the first item below
\* WARNING is dropped, the others are kept in temp_queue
SendDrain ==
  /\ call.send.pc = "drain"
  /\ IF slack_queue = <<>>
     THEN /\ call' = [call EXCEPT !.send.pc = "refill"]
          /\ UNCHANGED slack_queue
     ELSE /\ slack_queue' = Tail(slack_queue)
          /\ call' = IF ~call.send.removed /\ ~IsHigh(Head(slack_queue).alert_level)
                     THEN [call EXCEPT !.send.removed = TRUE]
                     ELSE [call EXCEPT !.send.temp_queue = Append(@, Head(slack_queue))]
  /\ UNCHANGED <<now, stop_event, lock_owner, sensor, reg, irq_pending, registered,
                 status, events, noise_events, noise_revert_timer, storm, alert, timers,
                 irq, sup_pc, noise_enabled, events_left, drv>>

\* "for item in temp_queue: SLACK_QUEUE.put_nowait(item)", then the new message
\* if an item was removed; a put_nowait that finds the queue full raises, and the
\* outer "except:" logs and ends the call
SendRefill ==
  /\ call.send.pc = "refill"
  /\ IF call.send.temp_queue /= <<>>
     THEN IF Len(slack_queue) < SlackQueueMaxSize
          THEN /\ slack_queue' = Append(slack_queue, Head(call.send.temp_queue))
               /\ call' = [call EXCEPT !.send.temp_queue = Tail(@)]
          ELSE /\ call' = [call EXCEPT !.send.pc = "failed", !.send.temp_queue = <<>>]
               /\ UNCHANGED slack_queue
     ELSE IF ~call.send.removed
     THEN /\ call' = [call EXCEPT !.send.pc = "full_of_critical"]
          /\ UNCHANGED slack_queue
     ELSE IF Len(slack_queue) < SlackQueueMaxSize
     THEN /\ slack_queue' = Append(slack_queue, ForcedMsg)
          /\ call' = [call EXCEPT !.send.pc = "queued"]
     ELSE /\ call' = [call EXCEPT !.send.pc = "failed"]
          /\ UNCHANGED slack_queue
  /\ UNCHANGED <<now, stop_event, lock_owner, sensor, reg, irq_pending, registered,
                 status, events, noise_events, noise_revert_timer, storm, alert, timers,
                 irq, sup_pc, noise_enabled, events_left, drv>>

\* another thread calls send_slack_notification meanwhile: its put_nowait, which
\* on a full queue drops a message below WARNING (a WARNING/CRITICAL one would
\* start a drain of its own, which is left out)
SendOtherPut ==
  /\ events_left > 0
  /\ \E level \in MessageLevels :
       /\ Len(slack_queue) < SlackQueueMaxSize \/ ~IsHigh(level)
       /\ slack_queue' =
            IF Len(slack_queue) < SlackQueueMaxSize
            THEN Append(slack_queue,
                        Msg(level, IF level = "all_clear" THEN "critical" ELSE "none",
                            IF IsHigh(level) THEN CriticalDistance ELSE None,
                            SlackQueueMaxSize + events_left))
            ELSE slack_queue
  /\ events_left' = events_left - 1
  /\ UNCHANGED <<now, stop_event, lock_owner, sensor, reg, irq_pending, registered,
                 status, events, noise_events, noise_revert_timer, storm, alert, timers,
                 irq, sup_pc, noise_enabled, drv, call>>

\* a full queue whose oldest message alone is below WARNING; the worker waits
\* in get, one thread has found the queue full, others are yet to queue
DrainInit ==
  /\ now = 0
  /\ call = InitWorker @@ [send |-> InitSend]
  /\ stop_event = FALSE
  /\ drv = InitDrv
  /\ lock_owner = [l \in Locks |-> "none"]
  /\ sensor = NoSensor
  /\ reg = [a \in RegAddrs |-> 0]
  /\ irq_pending = FALSE
  /\ registered = FALSE
  /\ status = InitStatus
  /\ events = <<>>
  /\ noise_events = <<>>
  /\ noise_revert_timer = "none"
  /\ storm = InitStorm
  /\ irq = InitIrq
  /\ sup_pc = "init"
  /\ noise_enabled = TRUE
  /\ alert = InitAlert
  /\ timers = [i \in TimerIds |-> UnusedTimer]
  /\ events_left = DrainEvents
  /\ slack_queue = [i \in 1..SlackQueueMaxSize |-> QueuedMsg(i, i = 1)]

\* the draining thread, the other producers and the worker, which takes a message
\* and is busy sending it, in any order
DrainSpec == DrainInit /\ [][SendDrain \/ SendRefill \/ SendOtherPut \/ WorkerGet]_vars

(* ------------------------- driver register calls ----------------------- *)
\* a live driver, no thread running, nothing queued; the registers are set by the
\* specifications below
DriverInit ==
  /\ now = 0
  /\ call = NoCall
  /\ stop_event = FALSE
  /\ drv = [InitDrv EXCEPT !.open = 1]
  /\ lock_owner = [l \in Locks |-> "none"]
  /\ sensor = [exists |-> TRUE, is_initialized |-> TRUE,
               original_noise_floor |-> MediumNfLev]
  /\ irq_pending = FALSE
  /\ registered = FALSE
  /\ status = InitializedStatus(InitStatus)
  /\ events = <<>>
  /\ noise_events = <<>>
  /\ noise_revert_timer = "none"
  /\ storm = InitStorm
  /\ irq = InitIrq
  /\ sup_pc = "loop"
  /\ noise_enabled = TRUE
  /\ alert = InitAlert
  /\ timers = [i \in TimerIds |-> UnusedTimer]
  /\ events_left = 0
  /\ slack_queue = <<>>

\* the levels set_noise_floor is called with: the valid ones and one on either side
NoiseLevels == (0 - 1)..(MaxNoiseFloor + 1)

\* AS3935.set_noise_floor(level); ok = FALSE: the SPI transfer raises IOError, the
\* handler marks the sensor unhealthy under MONITORING_STATE['lock']
DriverSetNoiseFloor ==
  /\ Free("status")
  /\ \E level \in NoiseLevels, ok \in BOOLEAN :
       LET valid == level >= 0 /\ level <= MaxNoiseFloor
       IN /\ reg' = IF ok THEN set_noise_floor(reg, level) ELSE reg
          /\ status' = IF valid /\ ~ok
                       THEN [status EXCEPT !.sensor_healthy = FALSE, !.last_error = "SPI error"]
                       ELSE status
          /\ call' = [op |-> "set_noise_floor", level |-> level,
                      outcome |-> IF ~valid THEN "rejected"
                                  ELSE IF ok THEN "written" ELSE "error"]
  /\ UNCHANGED <<now, stop_event, lock_owner, sensor, irq_pending, registered,
                 events, noise_events, noise_revert_timer, storm, alert, timers,
                 slack_queue, irq, sup_pc, noise_enabled, events_left, drv>>

\* register 0x01 holds any byte
RegisterInit ==
  /\ DriverInit
  /\ \E v \in 0..255 : reg = [a \in RegAddrs |-> IF a = 1 THEN v ELSE 0]

RegisterSpec == RegisterInit /\ [][DriverSetNoiseFloor]_vars

\* the chip latches the energy of a strike in registers 0x04, 0x05 and 0x06
DriverLatchEnergy ==
  /\ call.op = "none"
  /\ \E e \in 0..(2^EnergyBits - 1) :
       /\ reg' = [reg EXCEPT ![4] = EnergyBytes(e)[1], ![5] = EnergyBytes(e)[2],
                             ![6] = EnergyBytes(e)[3]]
       /\ call' = [op |-> "latch", energy |-> e]
  /\ UNCHANGED <<now, stop_event, lock_owner, sensor, irq_pending, registered, status,
                 events, noise_events, noise_revert_timer, storm, alert, timers,
                 slack_queue, irq, sup_pc, noise_enabled, events_left, drv>>

\* AS3935.get_lightning_energy()
DriverGetEnergy ==
  /\ call.op = "latch"
  /\ call' = [op |-> "get_lightning_energy", energy |-> call.energy,
              result |-> get_lightning_energy(reg)]
  /\ UNCHANGED <<now, stop_event, lock_owner, sensor, reg, irq_pending, registered,
                 status, events, noise_events, noise_revert_timer, storm, alert, timers,
                 slack_queue, irq, sup_pc, noise_enabled, events_left, drv>>

EnergyInit == DriverInit /\ reg = [a \in RegAddrs |-> 0]

EnergySpec == EnergyInit /\ [][DriverLatchEnergy \/ DriverGetEnergy]_vars

\* contents of a register at the ends and in the middle of a byte
ByteMarks == {0, 1, 127, 128, 254, 255}

\* any content of register 0x06, with registers 0x04 and 0x05 at the marks
DecodeInit ==
  /\ DriverInit
  /\ \E lsb \in ByteMarks, msb \in ByteMarks, mmsb \in 0..255 :
       reg = [a \in RegAddrs |-> IF a = 4 THEN lsb ELSE IF a = 5 THEN msb
                                 ELSE IF a = 6 THEN mmsb ELSE 0]

\* AS3935.get_lightning_energy() on whatever the registers hold
DriverDecodeEnergy ==
  /\ call.op = "none"
  /\ call' = [op |-> "decode_energy", result |-> get_lightning_energy(reg)]
  /\ UNCHANGED <<now, stop_event, lock_owner, sensor, reg, irq_pending, registered,
                 status, events, noise_events, noise_revert_timer, storm, alert, timers,
                 slack_queue, irq, sup_pc, noise_enabled, events_left, drv>>

DecodeSpec == DecodeInit /\ [][DriverDecodeEnergy]_vars

(* ------------------- _read_register / _write_register ------------------ *)
\* what the bus does to the transfers a call may make, one after the other:
\* TRUE, xfer2 returns; FALSE, it raises IOError
BusOutcomes == [1..BusRetries -> BOOLEAN]

\* the registers accessed (0x01 and 0x03) and the values written
BusAddrs == {1, 3}
BusValues == {0, 255}

RECURSIVE read_register(_, _, _, _, _)
\* _read_register(reg) of a driver whose bus handle is open or not, from the
\* attempt-th pass of its loop on; result[1] of a read is the register's content
read_register(open, r, a, outs, attempt) ==
  IF ~open THEN [raised |-> FALSE, value |-> 0, transfers |-> 0]
  ELSE IF attempt >= BusRetries
  THEN [raised |-> FALSE, value |-> 0, transfers |-> attempt]
  ELSE IF outs[attempt + 1]
  THEN [raised |-> FALSE, value |-> r[a], transfers |-> attempt + 1]
  ELSE IF attempt = BusRetries - 1
  THEN [raised |-> TRUE, value |-> None, transfers |-> attempt + 1]
  ELSE read_register(open, r, a, outs, attempt + 1)

RECURSIVE write_register(_, _, _, _, _, _)
\* _write_register(reg, value): the registers it leaves
write_register(open, r, a, v, outs, attempt) ==
  IF ~open THEN [raised |-> FALSE, reg |-> r, transfers |-> 0]
  ELSE IF attempt >= BusRetries
  THEN [raised |-> FALSE, reg |-> r, transfers |-> attempt]
  ELSE IF outs[attempt + 1]
  THEN [raised |-> FALSE, reg |-> [r EXCEPT ![a] = v], transfers |-> attempt + 1]
  ELSE IF attempt = BusRetries - 1
  THEN [raised |-> TRUE, reg |-> r, transfers |-> attempt + 1]
  ELSE write_register(open, r, a, v, outs, attempt + 1)

\* a call of sensor._read_register
DriverReadRegister ==
  /\ \E a \in BusAddrs, outs \in BusOutcomes :
       LET res == read_register(drv.open = 1, reg, a, outs, 0)
       IN call' = [op |-> "read_register", addr |-> a, outs |-> outs,
                   raised |-> res.raised, value |-> res.value,
                   transfers |-> res.transfers]
  /\ UNCHANGED <<now, stop_event, lock_owner, sensor, reg, irq_pending, registered,
                 status, events, noise_events, noise_revert_timer, storm, alert, timers,
                 slack_queue, irq, sup_pc, noise_enabled, events_left, drv>>

\* a call of sensor._write_register
DriverWriteRegister ==
  /\ \E a \in BusAddrs, v \in BusValues, outs \in BusOutcomes :
       LET res == write_register(drv.open = 1, reg, a, v, outs, 0)
       IN /\ reg' = res.reg
          /\ call' = [op |-> "write_register", addr |-> a, outs |-> outs,
                      raised |-> res.raised, value |-> v,
                      transfers |-> res.transfers]
  /\ UNCHANGED <<now, stop_event, lock_owner, sensor, irq_pending, registered,
                 status, events, noise_events, noise_revert_timer, storm, alert, timers,
                 slack_queue, irq, sup_pc, noise_enabled, events_left, drv>>

\* AS3935LightningDetector.cleanup(): the bus handle is closed and dropped
DriverCleanup ==
  /\ drv.open = 1
  /\ drv' = [drv EXCEPT !.open = 0]
  /\ call' = [op |-> "cleanup"]
  /\ UNCHANGED <<now, stop_event, lock_owner, sensor, reg, irq_pending, registered,
                 status, events, noise_events, noise_revert_timer, storm, alert, timers,
                 slack_queue, irq, sup_pc, noise_enabled, events_left>>

BusInit ==
  /\ DriverInit
  /\ reg = [a \in RegAddrs |-> IF a = 1 THEN (MediumNfLev * 16) + MediumWdth ELSE 0]

BusSpec == BusInit /\ [][DriverReadRegister \/ DriverWriteRegister \/ DriverCleanup]_vars

(* ------------------------------ lock waits ----------------------------- *)
\* the lock a thread is about to take, by an acquire without timeout, where it stands
IrqWaits ==
  IF irq.pc \in {"storm", "upd_reading", "exc", "l_append", "d_start", "n_start"}
  THEN "status"
  ELSE IF irq.pc \in {"l_check", "sched_acq"} THEN "timer"
  ELSE IF irq.pc \in {"d_acq_sensor", "n_acq_sensor"} THEN "sensor"
  ELSE "none"

SupWaits ==
  IF sup_pc \in {"init", "cleanup"} THEN "sensor"
  ELSE IF sup_pc \in {"init_status", "final"} THEN "status"
  ELSE "none"

Waits(t) ==
  IF t = "irq" THEN IrqWaits
  ELSE IF t = "sup" THEN SupWaits
  ELSE IF t \in TimerIds /\ timers[t].st = "started"
  THEN IF timers[t].level \in Zones THEN "timer" ELSE "sensor"
  ELSE IF t \in TimerIds /\ timers[t].st \in {"locked", "blocked"} THEN "status"
  ELSE "none"

\* the callback waits for a lock that it owns itself: nothing can release it
IrqSelfBlocked == IrqWaits \in Locks /\ lock_owner[IrqWaits] = "irq"

\* t waits for a lock whose owner will never release it
WaitsForever(t) ==
  /\ Waits(t) \in Locks
  /\ lock_owner[Waits(t)] = "irq"
  /\ IrqSelfBlocked

\* C1: no thread ever waits forever on the sensor-lifecycle lock, the status lock or
\* the alert-timer lock (the locks are not reentrant).
NoThreadWaitsForever == \A t \in Threads : ~WaitsForever(t)

\* C2: every invocation of the interrupt callback eventually returns, whatever the
\* interrupt reason and the noise and alert state, and once it has returned it no
\* longer holds the sensor-lifecycle lock.
InterruptCallbackReturns ==
  (irq.pc /= "idle") ~> (irq.pc = "idle" /\ lock_owner["sensor"] /= "irq")

\* In the program from its start no Timer is ever started: each path to
\* Timer.start() first takes a lock its thread already holds.
NoTimerStarted == \A i \in TimerIds : timers[i].st = "unused"

(* ------------------------- strikes and their records ------------------- *)
\* the chip has latched a lightning event that the callback has yet to take up
StrikeLatched == irq_pending /\ get_interrupt_reason(reg) = INT_L
LatchedDistance == get_lightning_distance(reg)
LatchedEnergy == get_lightning_energy(reg)
\* the latched event is the last of the run: the registers keep its values
LastEvent == events_left = 0
\* ways for an invocation to end without handling its event: the stop signal at the
\* entry, a bus failure (which degrades sensor_healthy)
Unhandled == stop_event \/ ~status.sensor_healthy
Recorded(d, e, level, sent) ==
  \E k \in 1..Len(events) :
    /\ events[k].distance = d
    /\ events[k].energy = e
    /\ events[k].alert_level = level
    /\ events[k].alert_sent = sent
Queued(level) == \E k \in 1..Len(slack_queue) : slack_queue[k].alert_level = level
\* the callback leaves check_alert_conditions
LeavesCheck == irq.pc = "l_check" /\ irq'.pc /= "l_check"
\* the callback returns from handle_lightning_event at one of the validation returns
DropsStrike == irq.pc = "l_read" /\ irq'.pc = "idle"

\* C3: in every reachable state, CRITICAL active implies WARNING inactive: after
\* any sequence of lightning events, all-clear timer firings and alert-timer
\* cleanups, critical_active and warning_active are never both true.
CriticalExcludesWarning == alert.critical_active => ~alert.warning_active

\* a critical strike has just activated CRITICAL in a state where WARNING had been
\* struck and its timer is still outstanding
CriticalSupersededWarning ==
  /\ alert.critical_active
  /\ irq.pc = "sched_acq"
  /\ irq.send_alert
  /\ alert.warning_timer /= "none"
  /\ alert.last_warning_strike /= None

\* C4: a strike of at least the energy threshold within the critical distance that
\* arrives while WARNING is ACTIVE deactivates WARNING and activates CRITICAL,
\* emitting a CRITICAL alert; and a later strike in the warning range while CRITICAL
\* is active does not reactivate WARNING and produces no new alert.
CriticalStrikeSupersedesWarning ==
  /\ (/\ StrikeLatched /\ LastEvent
      /\ alert.warning_active
      /\ LatchedEnergy >= EnergyThreshold
      /\ LatchedDistance \in 1..CriticalDistance)
       ~> \/ alert.critical_active /\ ~alert.warning_active /\ Queued("critical")
          \/ Unhandled
  /\ [][(/\ LeavesCheck
         /\ alert.critical_active
         /\ irq.energy >= EnergyThreshold
         /\ irq.distance > CriticalDistance
         /\ irq.distance <= WarningDistance)
          => /\ ~alert'.warning_active
             /\ ~irq'.send_alert
             /\ slack_queue' = slack_queue]_vars

\* C5: a LIGHTNING interrupt with a valid distance appends one event record; with
\* thresholds 100000 / 10 km / 30 km and no zone active, the event (8 km, 250000)
\* is recorded with alert_level CRITICAL and alert_sent true.
ValidStrikeRecorded ==
  /\ (/\ StrikeLatched /\ LastEvent /\ irq.pc = "idle"
      /\ ValidDistance(LatchedDistance))
       ~> \/ \E k \in 1..Len(events) : /\ events[k].distance = LatchedDistance
                                       /\ events[k].energy = LatchedEnergy
          \/ Unhandled
  /\ (/\ StrikeLatched /\ LastEvent /\ irq.pc = "idle"
      /\ LatchedDistance = 8 /\ LatchedEnergy = 250000
      /\ ~alert.critical_active /\ ~alert.warning_active)
       ~> \/ Recorded(8, 250000, "critical", TRUE)
          \/ Unhandled

Fires(i) ==
  /\ timers[i].level \in Zones
  /\ timers[i].st = "started"
  /\ timers'[i].st = "done"
\* an ALL_CLEAR notification for zone z is put on the queue in this step
AllClearQueued(z) ==
  /\ Len(slack_queue') = Len(slack_queue) + 1
  /\ slack_queue'[Len(slack_queue')].alert_level = "all_clear"
  /\ slack_queue'[Len(slack_queue')].previous_level = z

\* C8: an all-clear timer callback that fires while its zone is INACTIVE (already
\* cleared, superseded by CRITICAL, or reset by cleanup) changes no alert state and
\* queues no ALL_CLEAR; hence an activation of a zone yields at most one ALL_CLEAR:
\* whenever one is queued, the zone was active and is inactive afterwards.
AllClearIdempotent ==
  /\ [][\A i \in TimerIds :
          (Fires(i) /\ ~ZoneActive(alert, timers[i].level))
            => alert' = alert /\ slack_queue' = slack_queue]_vars
  /\ [][\A z \in Zones :
          AllClearQueued(z) => ZoneActive(alert, z) /\ ~ZoneActive(alert', z)]_vars

\* the callback of a timer has run to its end on a zone that was inactive: the zone
\* is inactive, nothing was queued, and no cleanup has emptied the tracking list
FiredOnInactiveZone ==
  \E i \in TimerIds :
    /\ timers[i].level \in Zones
    /\ timers[i].st = "done"
    /\ ~ZoneActive(alert, timers[i].level)
    /\ i \in alert.active_timers
    /\ slack_queue = <<>>
    /\ ~stop_event

\* C9: a timer callback queues an ALL_CLEAR or deactivates its zone only when, at
\* the moment it holds the alert-timer lock, the zone is ACTIVE and at least
\* all_clear_timer has passed since the zone's last qualifying strike; a stale
\* timer that fires sooner after that strike never clears the zone.
AllClearOnlyAfterQuiet ==
  [][\A i \in TimerIds :
       (Fires(i) /\ (alert' /= alert \/ slack_queue' /= slack_queue))
         => /\ Free("timer")
            /\ ZoneActive(alert, timers[i].level)
            /\ ZoneLast(alert, timers[i].level) /= None
            /\ now - ZoneLast(alert, timers[i].level) >= AllClearTimer]_vars

\* the superseded timer's callback has run before the quiet period was over and the
\* zone is still active
StaleTimerLeftZoneActive ==
  /\ timers["t3"].st = "done"
  /\ timers["t3"].level \in Zones
  /\ ZoneActive(alert, timers["t3"].level)
  /\ now - ZoneLast(alert, timers["t3"].level) < AllClearTimer
  /\ slack_queue = <<>>

\* C10: a zone that is ACTIVE, with no further strike to come and the stop signal
\* clear, eventually returns to INACTIVE through its all-clear timer, with an
\* ALL_CLEAR queued (the clock of the model can still advance by all_clear_timer).
ActiveZoneEventuallyClears ==
  \A z \in Zones :
    (/\ ZoneActive(alert, z)
     /\ LastEvent /\ ~irq_pending
     /\ now + AllClearTimer <= MaxTime)
      ~> \/ ~ZoneActive(alert, z) /\ Queued("all_clear")
         \/ stop_event

(* ------------------------------ noise modes ---------------------------- *)
\* NF_LEV, bits 6:4 of register 0x01
NoiseFloorOf(r) == (r[1] \div 16) % 8
\* the callback leaves the part of handle_disturber_event / handle_noise_high_event
\* that runs before "with SENSOR_INIT_LOCK"
LeavesDisturberStart == irq.pc = "d_start" /\ irq'.pc /= "d_start"
LeavesNoiseHighStart == irq.pc = "n_start" /\ irq'.pc /= "n_start"

\* C11: starting in mode NORMAL, event_threshold disturber events inside the time
\* window escalate the noise mode to HIGH, with one write of the raised noise-floor
\* level; a further disturber event while the mode is already HIGH does not write
\* the noise floor again and leaves the mode HIGH.
DisturbersEscalateToHigh ==
  /\ (/\ noise_enabled
      /\ Len(noise_events) >= EventThreshold
      /\ status.noise_mode = "Normal")
       ~> (status.noise_mode = "High" /\ NoiseFloorOf(reg) = RaisedNoiseFloor)
  /\ [][(LeavesDisturberStart /\ status.noise_mode = "High")
          => reg' = reg /\ status'.noise_mode = "High"]_vars

\* C14: a NOISE_HIGH interrupt handled while the mode is NORMAL or HIGH (noise
\* handling enabled, sensor live) results in mode CRITICAL with the noise floor set
\* to 7 and a revert-to-CRITICAL timer scheduled in place of any pending revert
\* timer; while the mode is already CRITICAL it changes nothing.
NoiseHighForcesCritical ==
  /\ (/\ irq_pending /\ get_interrupt_reason(reg) = INT_NH
      /\ LastEvent /\ irq.pc = "idle"
      /\ noise_enabled /\ SensorLive
      /\ status.noise_mode \in {"Normal", "High"})
       ~> \/ /\ status.noise_mode = "Critical"
             /\ NoiseFloorOf(reg) = MaxNoiseFloor
             /\ noise_revert_timer \in TimerIds
             /\ timers[noise_revert_timer].level = "Critical"
             /\ timers[noise_revert_timer].st = "pending"
          \/ Unhandled
  /\ [][(LeavesNoiseHighStart /\ status.noise_mode = "Critical")
          => /\ reg' = reg
             /\ status' = status
             /\ timers' = timers
             /\ noise_revert_timer' = noise_revert_timer]_vars

\* C19: the lock-acquisition order is strict: no thread ever requests the
\* sensor-lifecycle lock while it holds the status lock.
SensorLockBeforeStatusLock ==
  \A t \in Threads : ~(Waits(t) = "sensor" /\ lock_owner["status"] = t)

\* NORMAL < HIGH < CRITICAL
Rank(mode) == IF mode = "Normal" THEN 0 ELSE IF mode = "High" THEN 1 ELSE 2
\* the callback of revert timer i goes through its locked part in this step
Reverts(i) ==
  /\ timers[i].level \in RevertLevels
  /\ timers[i].st = "locked"
  /\ timers'[i].st = "done"
\* the callback of revert timer i returns in this step
RevertEnds(i) ==
  /\ timers[i].level \in RevertLevels
  /\ timers[i].st \in {"started", "locked"}
  /\ timers'[i].st = "done"

\* C12: the noise mode, ordered NORMAL < HIGH < CRITICAL, never decreases except
\* through the revert callback: the disturber path never lowers CRITICAL to HIGH,
\* and no action other than a revert moves the mode to NORMAL.
NoiseModeMonotone ==
  [][Rank(status'.noise_mode) < Rank(status.noise_mode)
       => /\ \E i \in TimerIds : Reverts(i)
          /\ status'.noise_mode = "Normal"]_vars

\* in mode CRITICAL a disturber past the threshold has been handled and the mode is
\* still CRITICAL
CriticalSurvivesDisturber ==
  /\ status.noise_mode = "Critical"
  /\ Len(noise_events) > EventThreshold
  /\ irq.pc = "idle"

Sends == call'.op = "send" /\ events_left' < events_left
\* the queue is full and holds no WARNING or CRITICAL message
FullOfInfo(q) ==
  /\ Len(q) = SlackQueueMaxSize
  /\ \A i \in 1..Len(q) : ~IsHigh(q[i].alert_level)
\* the queue is full and holds WARNING and CRITICAL messages only
FullOfHigh(q) ==
  /\ Len(q) = SlackQueueMaxSize
  /\ \A i \in 1..Len(q) : IsHigh(q[i].alert_level)
IsHighMsg(msg) == IsHigh(msg.alert_level)
\* the WARNING and CRITICAL messages of a queue, oldest first
HighOf(q) == SelectSeq(q, IsHighMsg)

TopBit(r) == r[1] \div 128
\* WDTH, bits 3:0 of register 0x01
WdthOf(r) == r[1] % 16

\* C17: for every value v of register 0x01 and every level L in 0..7,
\* set_noise_floor(L) writes a value that differs from v only in NF_LEV, bits 6:4,
\* which become L, and keeps WDTH, bits 3:0; for L outside 0..7 nothing is read or
\* written and the register is unchanged.
SetNoiseFloorChangesOnlyNfLev ==
  [][call'.op = "set_noise_floor"
       => /\ call'.outcome = "rejected" <=> call'.level \notin 0..MaxNoiseFloor
          /\ call'.outcome = "rejected" => reg' = reg
          /\ call'.outcome = "written"
               => /\ NoiseFloorOf(reg') = call'.level
                  /\ WdthOf(reg') = WdthOf(reg)
                  /\ TopBit(reg') = TopBit(reg)]_vars

\* C18: for every 20-bit value E, with the three bytes of E (bits 7:0, 15:8, 19:16)
\* in registers 0x04, 0x05 and 0x06, get_lightning_energy returns exactly E.
EnergyRoundTrip ==
  call.op = "get_lightning_energy" => call.result = call.energy

\* the largest 20-bit energy has been latched and decoded
LargestEnergyDecoded ==
  /\ call.op = "get_lightning_energy"
  /\ call.energy = 2^EnergyBits - 1
  /\ call.result = call.energy
  /\ reg[4] = 255 /\ reg[5] = 255 /\ reg[6] = 15

(* --------------------------- sensor lifecycle -------------------------- *)
\* the positions of the interrupt callback between its acquire of
\* SENSOR_INIT_LOCK and the release in its "finally"
IrqInCallback == irq.pc \notin {"idle", "storm", "acq_sensor"}

\* C20: at most one driver instance is live at any time, and it is the global one;
\* a thread that reads or writes registers or cleans the instance up holds
\* SENSOR_INIT_LOCK: the callback from its first register read to its return, the
\* monitoring thread in initialization and in its health check, the /health route
\* during its read.  Hence these never interleave.
OneDriverUnderLock ==
  /\ drv.open <= 1
  /\ drv.open = (IF sensor.exists THEN 1 ELSE 0)
  /\ IrqInCallback => lock_owner["sensor"] = "irq"
  /\ sup_pc \in {"init_status", "health"} => lock_owner["sensor"] = "sup"
  /\ drv.app_pc = "health" => lock_owner["sensor"] = "app"

\* the driver has been made anew after failed health checks: the power-up has
\* reset the interrupt register a strike had set, the callback for that strike has
\* yet to run, and the monitoring thread still holds the lock over the one instance
DriverReinitialized ==
  /\ sup_pc = "init_status"
  /\ lock_owner["sensor"] = "sup"
  /\ events_left < LifeEvents
  /\ irq_pending
  /\ reg[3] = 144
  /\ drv.open = 1

(* ------------------------- interrupt dispatch -------------------------- *)
\* the low four bits of the interrupt register
ReasonBits == reg[3] % 16
\* where the callback goes after the dispatch on reason bits b
Route(b) ==
  IF b = 8 THEN "l_read"
  ELSE IF b = 4 /\ noise_enabled THEN "d_start"
  ELSE IF b = 1 /\ noise_enabled THEN "n_start"
  ELSE "idle"
LightningPcs == {"l_read", "l_check", "sched_acq", "l_append"}
DisturberPcs == {"d_start", "d_acq_sensor"}
NoiseHighPcs == {"n_start", "n_acq_sensor"}
\* nothing a handler writes has been written
NoHandlerEffect ==
  /\ alert = InitAlert
  /\ events = <<>>
  /\ noise_events = <<>>
  /\ noise_revert_timer = "none"
  /\ status.noise_mode = "Normal"

\* C28: the reason is the low four bits of the interrupt register; 0x08 goes to
\* the lightning path only, 0x04 to the disturber path only, 0x01 to the noise-high
\* path only; every other value, 0x00 and combinations such as 0x0C included, is
\* unknown and changes no alert-zone state, noise mode, disturber window or event
\* buffer.
DispatchRoutesByReason ==
  /\ [][(irq.pc = "upd_reading" /\ irq'.pc /= "upd_reading")
          => irq'.pc = Route(ReasonBits)]_vars
  /\ [](/\ irq.pc \in LightningPcs => ReasonBits = 8
        /\ irq.pc \in DisturberPcs => ReasonBits = 4
        /\ irq.pc \in NoiseHighPcs => ReasonBits = 1
        /\ ReasonBits /= 8 => alert = InitAlert /\ events = <<>>
        /\ ReasonBits /= 4 => noise_events = <<>>
        /\ ReasonBits \notin {1, 4} => status.noise_mode = "Normal"
        /\ ReasonBits \notin {1, 4, 8} => NoHandlerEffect)

\* an interrupt with the reason bits 0x0C under a set upper nibble has been read,
\* found unknown and the callback has returned; nothing was recorded
CombinedReasonIgnored ==
  /\ reg[3] = 144 + 12
  /\ irq.pc = "idle"
  /\ status.last_reading /= None
  /\ NoHandlerEffect

(* --------------------------- interrupt entry --------------------------- *)
\* the positions of the callback at which it reads registers
RegisterReadPcs == {"read_reason", "l_read"}
\* the callback is entered in this step
CallbackEntered == irq_pending /\ ~irq_pending'
\* what no callback may touch before it owns the sensor lock
NoReadNoEffect ==
  /\ reg' = reg
  /\ events' = events
  /\ alert' = alert
  /\ timers' = timers
  /\ slack_queue' = slack_queue
  /\ noise_events' = noise_events
  /\ noise_revert_timer' = noise_revert_timer
  /\ status' = status

\* C29: the callback reads registers and dispatches only if the stop signal was
\* clear at its entry and it got the sensor lock within the timeout; entered with
\* the stop signal set it returns at once and changes nothing; when the lock times
\* out it returns with no register read and no event, alert or noise-mode change.
CallbackGuardedByStopAndLock ==
  /\ [][(CallbackEntered /\ stop_event)
          => /\ irq' = irq
             /\ storm' = storm
             /\ lock_owner' = lock_owner
             /\ registered' = registered
             /\ NoReadNoEffect]_vars
  /\ [][(irq.pc = "idle" /\ irq'.pc /= "idle") => (CallbackEntered /\ ~stop_event)]_vars
  /\ [][(irq.pc = "acq_sensor" /\ lock_owner["sensor"] /= "none" /\ irq' /= irq)
          => /\ irq' = InitIrq
             /\ lock_owner' = lock_owner
             /\ storm' = storm
             /\ NoReadNoEffect]_vars
  /\ [][(irq.pc = "storm" /\ irq' /= irq) => NoReadNoEffect]_vars
  /\ [](irq.pc \in RegisterReadPcs => lock_owner["sensor"] = "irq")

\* the callback for the one event passed the storm check and returned without a
\* read while a health check holds the lock over the live sensor
CallbackGaveUpOnLock ==
  /\ irq.pc = "idle"
  /\ ~irq_pending
  /\ events_left = 0
  /\ storm.last_interrupt_time /= None
  /\ status.last_reading = None
  /\ status.last_error = "none"
  /\ SensorLive
  /\ sup_pc = "health"
  /\ drv.failures = 0
  /\ ~stop_event

\* C30: within one interrupt the last-reading timestamp is recorded only after
\* the dispatch of that interrupt has completed; an interrupt whose dispatch did
\* not complete does not update last_reading.
LastReadingAfterDispatch ==
  [][status'.last_reading /= status.last_reading => irq'.pc = "idle"]_vars

(* ------------------------ errors in the callback ----------------------- *)
\* C25: an error raised while the interrupt reason is read or inside a handler
\* does not leave the callback and does not end the monitoring loop: the callback
\* marks the sensor unhealthy, releases the sensor lock and returns, and later
\* interrupts are still dispatched.
CallbackSurvivesErrors ==
  /\ [][(irq.pc = "exc" /\ irq'.pc /= "exc")
          => /\ irq' = InitIrq
             /\ ~status'.sensor_healthy
             /\ lock_owner'["sensor"] = "none"
             /\ lock_owner'["status"] = lock_owner["status"]
             /\ sup_pc' = sup_pc
             /\ registered' = registered]_vars
  /\ (irq.pc = "exc") ~> (irq.pc = "idle")

\* after an interrupt that ended in an error a later interrupt has been dispatched
LaterInterruptDispatched ==
  /\ status.last_error = "Interrupt error"
  /\ irq.pc \in {"l_read", "d_start", "n_start"}


(* ------------------- initialization with retry (C21) ------------------- *)
\* initialize_sensor_with_retry has returned False after its last attempt
RetriesExhausted ==
  sup_pc = "init_failed" /\ status.status_message = "Fatal: Max retries exceeded"

\* C21: when every attempt of the initialization has failed, it returns failure
\* with the status marked fatally failed and with no live sensor instance left.
ExhaustedRetriesLeaveNoSensor == RetriesExhausted => ~SensorLive

\* the rest of the retry discipline: never more than max_retries attempts, a
\* backoff wait of retry_delay * 2^attempt seconds after a failed attempt that is
\* not the last, an immediate failure when the stop signal is seen in the wait,
\* and a success that sets sensor_active and sensor_healthy
RetryDiscipline ==
  /\ [](drv.attempt < drv.max_retries /\ drv.wait <= BackoffPolls(drv.attempt))
  /\ [][(sup_pc = "init_except" /\ sup_pc' = "backoff")
          => (drv.attempt < drv.max_retries - 1
              /\ drv'.wait = RetryDelay * Pow2(drv.attempt) * PollsPerSecond)]_vars
  /\ [][(sup_pc = "init_except" /\ sup_pc' = "give_up")
          => drv.attempt = drv.max_retries - 1]_vars
  /\ [][(sup_pc = "backoff" /\ drv.wait > 0 /\ stop_event /\ sup_pc' /= sup_pc)
          => sup_pc' = "init_failed"]_vars
  /\ [][(sup_pc = "init_status" /\ sup_pc' = "attach")
          => (status'.sensor_active /\ status'.sensor_healthy /\ SensorLive)]_vars

(* --------------------- the monitoring loop (C22) ----------------------- *)
\* the monitoring thread takes a step
SupSteps == sup_pc' /= sup_pc

\* C22: a failed health check adds one to the consecutive-failure counter and a
\* passed one resets it; the recovery starts exactly when the counter reaches
\* three: the interrupt is detached and the sensor initialized again with three
\* tries; a success resets the counter and attaches the interrupt again; a failed
\* initialization or a failed attach ends the loop.
SupervisorCountsFailures ==
  /\ [](drv.failures <= MaxConsecutiveFailures)
  /\ [](sup_pc = "loop" => drv.failures < MaxConsecutiveFailures)
  /\ [][(sup_pc = "health" /\ SupSteps)
          => /\ drv'.last_check \in {"passed", "failed"}
             /\ drv'.last_check = "passed" => drv'.failures = 0
             /\ drv'.last_check = "failed" => drv'.failures = drv.failures + 1
             /\ (sup_pc' = "recover") <=> (drv'.failures = MaxConsecutiveFailures)
             /\ sup_pc' \in {"recover", "loop"}]_vars
  /\ [][sup_pc' = "recover" => sup_pc \in {"health", "recover"}]_vars
  /\ [][(sup_pc = "recover" /\ SupSteps)
          => (~registered' /\ sup_pc' = "init" /\ drv'.attempt = 0
              /\ drv'.max_retries = RecoverRetries)]_vars
  /\ [][(drv.interrupt_configured /\ sup_pc = "init_status" /\ SupSteps)
          => (drv'.failures = 0 /\ sup_pc' = "attach")]_vars
  /\ [][(drv.interrupt_configured /\ sup_pc = "attach" /\ SupSteps)
          => ((registered' /\ sup_pc' = "loop") \/ sup_pc' = "cleanup")]_vars
  /\ [][(drv.interrupt_configured /\ sup_pc = "init_failed" /\ SupSteps)
          => sup_pc' = "cleanup"]_vars

\* after a recovery the loop runs again with a passed health check
RecoveredAndHealthy ==
  /\ sup_pc = "loop"
  /\ drv.max_retries = RecoverRetries
  /\ registered
  /\ drv.last_check = "passed"
  /\ drv.failures = 0


(* --------------------------- the watchdog (C23) ------------------------ *)
\* the watchdog has given up
WatchdogFatal ==
  drv.wd_pc = "exit" /\ status.status_message = "Fatal: Too many failures"

\* C23: with auto-restart enabled and every restarted monitoring thread dying
\* again, the watchdog eventually stops with the status "Fatal: Too many
\* failures" (unless a shutdown is requested).
WatchdogGivesUp == drv.auto_start => <>(stop_event \/ WatchdogFatal)

\* the watchdog's count of consecutive restart failures never passes one
WatchdogNeverCountsPastOne == drv.wd_failures <= 1

\* the new thread cannot end while the watchdog sleeps inside the "with"
ThreadAliveAfterSleep == drv.wd_pc = "sleep" => ThreadAlive


(* ----------------------------- shutdown (C24) -------------------------- *)
\* the monitoring thread has ended
ThreadEnded == sup_pc \in {"dead", "stopped"}

\* C24: once the stop signal is set the monitoring thread eventually ends, and it
\* ends with the interrupt detached, the sensor cleaned up and set to None, and
\* sensor_active false.
ShutdownCompletes ==
  stop_event ~> (ThreadEnded /\ ~registered /\ ~sensor.exists /\ ~status.sensor_active)

\* once the stop signal is set the monitoring thread eventually ends
ShutdownEndsThread == stop_event ~> ThreadEnded

\* once the stop signal is set the watchdog eventually returns
WatchdogExitsOnStop == stop_event ~> (drv.wd_pc = "exit")


(* ---------------------------- the worker (C26) ------------------------- *)
\* the messages, by their energy field, in a sequence
RECURSIVE Ids(_)
Ids(q) == IF q = <<>> THEN {} ELSE {Head(q).energy} \cup Ids(Tail(q))

\* no message occurs twice in the sequence
NoDuplicates(q) == Cardinality(Ids(q)) = Len(q)

\* the worker is busy with a message
WorkerBusy == call.pc = "send"

\* C26: a message the worker takes leaves the queue and is handled once; the
\* worker calls the sender at most three times for it; after the third failure
\* it logs, does not put the message back, and waits for the next message.
WorkerConsumesOnce ==
  /\ [](call.attempt < SendAttempts)
  /\ [](NoDuplicates(call.done))
  /\ [](Ids(call.done) \cap Ids(slack_queue) = {})
  /\ [](WorkerBusy => (call.msg.energy \notin Ids(slack_queue) \cup Ids(call.done)))
  /\ [][(call.pc = "get" /\ call'.pc = "send")
          => (call'.msg = Head(slack_queue) /\ slack_queue' = Tail(slack_queue)
              /\ call'.attempt = 0)]_vars
  /\ [][(WorkerBusy /\ call' /= call)
          => \/ (call'.pc = "send" /\ call'.msg = call.msg
                 /\ call'.attempt = call.attempt + 1 /\ slack_queue' = slack_queue)
             \/ (call'.pc = "get" /\ call'.done = Append(call.done, call.msg)
                 /\ slack_queue' = slack_queue)]_vars
  /\ [][call'.errors /= call.errors
          => (call.attempt = SendAttempts - 1 /\ call'.pc = "get")]_vars
  /\ [][call'.pc = "exit" => (call.pc = "exit" \/ (call.pc = "get"
                               /\ Head(slack_queue) = ShutdownSignal))]_vars

\* after a message that failed three times the worker has taken the next one
WorkerWentOnAfterFailure ==
  /\ call.errors = 1
  /\ Len(call.done) = 1
  /\ WorkerBusy
  /\ call.attempt = SendAttempts - 1


(* ---------------------------- storm guard (C27) ------------------------ *)
\* the callback takes the storm branch in this step
StormInvocation ==
  irq.pc = "storm" /\ irq' /= irq /\ storm'.interrupt_count > StormCount

\* when more than 100 invocations in a row have come quickly, the registration is
\* removed once and one re-enable is scheduled; an invocation counted as part of
\* the storm reads no register and dispatches nothing; a re-enable that runs
\* restores the registration, and one that ends has reset flag and counter
StormGuardSteps ==
  /\ [](storm.re_enable <= 1)
  /\ [](storm.interrupt_count <= StormCount + 1)
  /\ [][storm'.re_enable > storm.re_enable
          => /\ storm'.re_enable = storm.re_enable + 1
             /\ registered /\ ~registered'
             /\ ~storm.interrupt_storm_detected /\ storm'.interrupt_storm_detected
             /\ storm.interrupt_count = StormCount
             /\ storm'.interrupt_count = StormCount + 1]_vars
  /\ [][(irq.pc = "storm" /\ irq' /= irq /\ storm.interrupt_count < StormCount)
          => irq'.pc = "acq_sensor"]_vars
  /\ [][StormInvocation => (irq'.pc = "idle" /\ NoReadNoEffect
                             /\ lock_owner' = lock_owner)]_vars
  /\ [][(storm.re_enable_pc /= "reset" /\ storm'.re_enable_pc = "reset")
          => (registered' /\ now' > storm.last_interrupt_time)]_vars
  /\ [][storm'.re_enable < storm.re_enable
          => (~storm'.interrupt_storm_detected /\ storm'.interrupt_count = 0
              /\ registered)]_vars
  /\ (storm.re_enable > 0) ~> registered

\* C27: ... and after the delay the re-enable has restored the registration and
\* reset the storm flag and the counter, so that interrupts are handled again.
StormGuard == StormGuardSteps /\ ((storm.re_enable > 0) ~> (storm.re_enable = 0))

\* after a storm and its re-enable an interrupt is dispatched again
DispatchedAfterStorm ==
  /\ storm.re_enable = 0
  /\ storm.re_enable_pc = "done"
  /\ registered
  /\ irq.pc = "read_reason"


(* ------------------------- energy range (C31) -------------------------- *)
\* C31: whatever registers 0x04, 0x05 and 0x06 hold, get_lightning_energy returns
\* an unsigned 20-bit value, 0 .. 2^20 - 1.
EnergyWithin20Bits ==
  call.op = "decode_energy" => call.result \in 0..(2^EnergyBits - 1)

\* the decoded value is an unsigned 21-bit value
EnergyWithin21Bits ==
  call.op = "decode_energy" => call.result \in 0..(2^(EnergyBits + 1) - 1)


DisturberStep == irq.pc = "d_start" /\ irq' /= irq

\* q2 is q1 less some of its oldest entries
OldestRemoved(q1, q2) ==
  \E k \in 0..Len(q1) : q2 = SubSeq(q1, k + 1, Len(q1))

\* C33: after every disturber event the window holds, in time order, only
\* timestamps no older than time_window_seconds before that event, the event's own
\* one last, and at most maxlen (50) entries; and every step of the program that
\* changes the window removes entries from its old end only
DisturberWindowKept ==
  /\ [](Len(noise_events) <= NoiseEventsMaxLen)
  /\ [][DisturberStep =>
          /\ noise_events' /= <<>>
          /\ noise_events'[Len(noise_events')] = now
          /\ \A i \in 1..Len(noise_events') : now - noise_events'[i] <= TimeWindow
          /\ \A i \in 1..(Len(noise_events') - 1) :
                noise_events'[i] <= noise_events'[i + 1]
          /\ OldestRemoved(noise_events,
                           SubSeq(noise_events', 1, Len(noise_events') - 1))]_vars
  /\ [][~DisturberStep => OldestRemoved(noise_events, noise_events')]_vars

\* a disturber at time 2 met a full window whose entries of time 0 had aged out:
\* the window holds what time 1 left and the new timestamp
WindowAgedAtCap ==
  /\ now = 2
  /\ irq.pc = "idle"
  /\ Len(noise_events) = NoiseEventsMaxLen
  /\ noise_events[1] = 1
  /\ noise_events[NoiseEventsMaxLen] = 2

\* the call on record is a register access
RegisterAccess == call.op \in {"read_register", "write_register"}

\* the first transfer of the call on record that the bus let through, 0 if none
FirstGoodTransfer ==
  IF \E i \in 1..BusRetries : call.outs[i]
  THEN CHOOSE i \in 1..BusRetries :
         call.outs[i] /\ \A j \in 1..(i - 1) : ~call.outs[j]
  ELSE 0

\* the retry discipline of one register access
RetriedAccess ==
  /\ call.transfers <= BusRetries
  /\ IF FirstGoodTransfer > 0
     THEN /\ ~call.raised
          /\ call.transfers = FirstGoodTransfer
          /\ reg[call.addr] = call.value
     ELSE /\ call.raised
          /\ call.transfers = BusRetries
          /\ call.op = "read_register" => call.value = None

OpenRegisterAccessRetries == RegisterAccess /\ drv.open = 1 => RetriedAccess

\* a read of a driver without a bus handle returned a value
ReadWithoutTransfer ==
  /\ call.op = "read_register"
  /\ ~call.raised
  /\ call.transfers = 0
  /\ call.value = 0

\* the noise floor that goes with a noise mode
NoiseFloorFor(mode) ==
  IF mode = "Critical" THEN MaxNoiseFloor
  ELSE IF mode = "High" THEN RaisedNoiseFloor
  ELSE sensor.original_noise_floor

RevertsToNormal == status.noise_mode /= "Normal" /\ status'.noise_mode = "Normal"

RevertedBySuperseded ==
  /\ status.noise_mode = "Normal"
  /\ \E i \in TimerIds : /\ timers[i].st = "pending"
                          /\ timers[i].level = "High"
                          /\ timers[i].due > now

\* C37: once the stop signal is set the watchdog never clears it and never starts
\* a monitoring thread
WatchdogRespectsStop ==
  [][stop_event => /\ stop_event'
                   /\ ~(~ThreadAlive /\ sup_pc' = "init")]_vars

\* C38: the callback is registered only while the monitoring thread has it
\* attached: no step registers it once the thread has left its loop or the stop
\* signal is set
ReEnableOnlyWhileAttached ==
  [][~registered /\ registered' => sup_pc = "loop" /\ ~stop_event]_vars

\* the callback is registered while the monitoring thread has ended and dropped
\* the driver
RegisteredAfterCleanup ==
  /\ registered
  /\ sup_pc = "stopped"
  /\ ~sensor.exists

\* the messages the worker has taken, in the order it took them
Taken == call.done \o (IF call.pc = "send" THEN <<call.msg>> ELSE <<>>)

\* the messages of the full queue, by their energy field
Originals == 1..SlackQueueMaxSize

\* the messages still waiting: in the queue or in the drainer's temp_queue
Waiting == Ids(slack_queue) \cup Ids(call.send.temp_queue)

\* C39: of the messages queued when a WARNING/CRITICAL message met the full queue,
\* none but the one evicted is lost, and the worker takes them in their original
\* order: no message is taken while an older one still waits
EvictionKeepsOthers ==
  /\ Cardinality(Originals \ (Ids(Taken) \cup Waiting))
       <= (IF call.send.removed THEN 1 ELSE 0)
  /\ \A t \in Ids(Taken) \cap Originals :
       \A w \in Waiting \cap Originals : w > t

\* the worker took a message out of the middle of the queue while older ones
\* were in temp_queue, and they are back in the queue behind it
TakenOutOfOrder ==
  /\ call.send.pc = "queued"
  /\ \E t \in Ids(Taken) \cap Originals :
       \E w \in Ids(slack_queue) \cap Originals : w < t

\* C40: whenever the monitoring thread has ended, on whatever path, no sensor
\* instance is left (sensor is None, its bus handle closed) and sensor_active is
\* false
NoSensorWithoutThread ==
  ThreadEnded => ~sensor.exists /\ drv.open = 0 /\ ~status.sensor_active

\* the thread has ended after a clean-up, with nothing left
EndedClean ==
  sup_pc = "stopped" /\ ~sensor.exists /\ drv.open = 0 /\ ~status.sensor_active

====
